---- MODULE Spec2Model ----
(***************************************************************************)
(* Customer Sentiment Hub: taxonomy validation, the Gemini LLM adapter,    *)
(* the batching review processor, the POST /analyze route and the          *)
(* middleware stack with the admin routes.                                 *)
(***************************************************************************)
EXTENDS Integers, Sequences, FiniteSets, TLC

VARIABLES
    label_in, label_out, v_pc,
    g_texts, g_response, g_result, g_pc,
    pc, caller, review_texts, ids_arg, review_ids, batch_size, i, final_result,
    result, llm_calls, svc_log, http_request, http_response,
    settings, clients, current_time, request, request_state, response_sent,
    raised, reached, forwarded, served,
    cfg, fd_pc, fd_call, fd_events, fd_result,
    in_flight, remaining_sent

vVars == <<label_in, label_out, v_pc>>
gVars == <<g_texts, g_response, g_result, g_pc>>
pVars == <<pc, caller, review_texts, ids_arg, review_ids, batch_size, i,
           final_result, result, llm_calls, svc_log, http_request,
           http_response>>
hVars == <<settings, clients, current_time, request, request_state,
           response_sent, raised, reached, forwarded, served>>
fVars == <<cfg, fd_pc, fd_call, fd_events, fd_result>>
cVars == <<in_flight, remaining_sent>>
vars == <<vVars, gVars, pVars, hVars, fVars, cVars>>

(***************************************************************************)
(* Bounds                                                                  *)
(***************************************************************************)
MaxTexts == 4
MaxBatch == 2
MaxGeminiTexts == 2
MaxLLMReviews == 3
MaxTime == 3
MaxRequests == 3

(***************************************************************************)
(* Python dict helpers: a dict is a function over the keys it holds.       *)
(***************************************************************************)
Has(d, k) == k \in DOMAIN d
Put(d, k, v) == [x \in (DOMAIN d) \cup {k} |-> IF x = k THEN v ELSE d[x]]
Min(a, b) == IF a < b THEN a ELSE b

(***************************************************************************)
(* domain/taxonomy.py                                                      *)
(***************************************************************************)
POSITIVE == "Positive"
NEGATIVE == "Negative"
NEUTRAL == "Neutral"
Sentiment == {POSITIVE, NEGATIVE, NEUTRAL}

PRODUCT_SERVICES == "Product & Services"
BILLING_PAYMENTS == "Billing & Payments"
COMMUNICATION == "Communication"
AGENT_SPECIFIC == "Agent Specific"
SALES_AFFILIATE == "Sales / Affiliate Related"
MISCELLANEOUS == "Miscellaneous"

\* insertion order of TAXONOMY["Categories"]
CategoryOrder ==
    <<PRODUCT_SERVICES, BILLING_PAYMENTS, COMMUNICATION, AGENT_SPECIFIC,
      SALES_AFFILIATE, MISCELLANEOUS>>

TAXONOMY ==
    (PRODUCT_SERVICES :>
        [Negative |-> {"Unsettled Debt", "Progress Pace", "Procedure",
                       "Settlement Percentage", "Creditor Correspondence",
                       "Debt Priority", "Settlement Failure", "Summons",
                       "Legal Procedure", "Legal Plan Representation",
                       "Lending", "Unmet Expectations (Services)",
                       "Delayed Cancellation Requests"},
         Positive |-> {"Progress Pace", "Procedure", "Settlement Percentage",
                       "Creditor Correspondence", "Debt Priority",
                       "Legal Procedure"},
         Neutral  |-> {"Progress Pace", "Procedure", "Settlement Percentage",
                       "Creditor Correspondence", "Debt Priority",
                       "Legal Procedure", "Unsettled Debt"}])
    @@ (BILLING_PAYMENTS :>
        [Negative |-> {"Fee Collection", "Additional Funds",
                       "Program Extension", "Draft Amount", "Delayed Refunds",
                       "Unauthorized Drafts", "Fees Amount", "Legal Plan Fees",
                       "Refund Amount"},
         Positive |-> {"Fee Collection", "Timely Refunds", "Fees Amount",
                       "Legal Plan Fees"},
         Neutral  |-> {"Fee Collection", "Fees Amount", "Legal Plan Fees"}])
    @@ (COMMUNICATION :>
        [Negative |-> {"Frequency of Calls (High)", "Communication Method",
                       "Delayed Responses", "No Response", "Unmet Expectations",
                       "Difficulty in Reaching Support", "Customer Portal",
                       "Legal Plan Communication",
                       "Unclear Communication / Misleading Information",
                       "Frequency of Calls (Low)", "Request Not Fulfilled"},
         Positive |-> {"Clear Communication", "Accurate Information",
                       "Frequency of Calls", "Communication Method",
                       "Timely Responses", "Ease of Access", "Expectations Met"},
         Neutral  |-> {"Communication Method", "Frequency of Calls",
                       "Customer Portal"}])
    @@ (AGENT_SPECIFIC :>
        [Negative |-> {"False Promises", "Knowledge",
                       "Communication & Soft Skills", "Missed Follow-up"},
         Positive |-> {"Knowledge", "Communication & Soft Skills"},
         Neutral  |-> {"Knowledge", "Communication & Soft Skills"}])
    @@ (SALES_AFFILIATE :>
        [Negative |-> {"Misrepresentation of Services",
                       "Lack of Follow-up by Affiliate",
                       "Misrepresentation of Legal Plan Services"},
         Positive |-> {"Satisfactory Practices"},
         Neutral  |-> {"Satisfactory Practices"}])
    @@ (MISCELLANEOUS :>
        [Negative |-> {"Creditor Calls", "Credit Score", "Other",
                       "Scam / Fraud Allegations", "Judgement"},
         Positive |-> {"Credit Score"},
         Neutral  |-> {"Credit Score", "Other"}])

get_valid_categories == DOMAIN TAXONOMY

get_valid_subcategories ==
    [c \in DOMAIN TAXONOMY |-> UNION {TAXONOMY[c][s] : s \in Sentiment}]

AllSubcategories == UNION {get_valid_subcategories[c] : c \in DOMAIN TAXONOMY}

\* the load-time loop overwrites, so the last category in insertion order wins
SUBCATEGORY_TO_CATEGORY ==
    [sub \in AllSubcategories |->
        LET idx == {k \in 1..Len(CategoryOrder) :
                        sub \in get_valid_subcategories[CategoryOrder[k]]}
        IN  CategoryOrder[CHOOSE k \in idx : \A m \in idx : m <= k]]

get_category_for_subcategory(subcategory) ==
    IF subcategory \in DOMAIN SUBCATEGORY_TO_CATEGORY
    THEN SUBCATEGORY_TO_CATEGORY[subcategory]
    ELSE MISCELLANEOUS

\* faulty variant: the two arguments are looked up the wrong way round
is_valid_subcategory_for_category_swapped(category, subcategory) ==
    /\ subcategory \in DOMAIN get_valid_subcategories
    /\ category \in get_valid_subcategories[subcategory]

is_valid_subcategory_for_category(category, subcategory) ==
    /\ category \in DOMAIN get_valid_subcategories
    /\ subcategory \in get_valid_subcategories[category]

(***************************************************************************)
(* Strings whose characters the code inspects (lower(), substring tests)   *)
(* are spelled out as character sequences.                                 *)
(***************************************************************************)
Chars ==
       ("Positive" :> <<"P", "o", "s", "i", "t", "i", "v", "e">>)
       @@ ("Negative" :> <<"N", "e", "g", "a", "t", "i", "v", "e">>)
       @@ ("Neutral" :> <<"N", "e", "u", "t", "r", "a", "l">>)
       @@ ("positive" :> <<"p", "o", "s", "i", "t", "i", "v", "e">>)
       @@ ("NEGATIVE" :> <<"N", "E", "G", "A", "T", "I", "V", "E">>)
       @@ ("pos" :> <<"p", "o", "s">>)
       @@ ("good" :> <<"g", "o", "o", "d">>)
       @@ ("bad" :> <<"b", "a", "d">>)
       @@ ("mixed" :> <<"m", "i", "x", "e", "d">>)
       @@ ("Very positive" :> <<"V", "e", "r", "y", " ", "p", "o", "s", "i", "t", "i", "v", "e">>)
       @@ ("Somewhat neutral" :> <<"S", "o", "m", "e", "w", "h", "a", "t", " ", "n", "e", "u", "t", "r", "a", "l">>)
       @@ ("Unknown" :> <<"U", "n", "k", "n", "o", "w", "n">>)
       @@ ("" :> <<>>)
       @@ ("good!" :> <<"g", "o", "o", "d", "!">>)
       @@ ("negative/positive" :> <<"n", "e", "g", "a", "t", "i", "v", "e", "/", "p", "o", "s", "i", "t", "i", "v", "e">>)
       @@ ("favorable" :> <<"f", "a", "v", "o", "r", "a", "b", "l", "e">>)
       @@ ("negative" :> <<"n", "e", "g", "a", "t", "i", "v", "e">>)
       @@ ("neg" :> <<"n", "e", "g">>)
       @@ ("unfavorable" :> <<"u", "n", "f", "a", "v", "o", "r", "a", "b", "l", "e">>)
       @@ ("neutral" :> <<"n", "e", "u", "t", "r", "a", "l">>)
       @@ ("neither" :> <<"n", "e", "i", "t", "h", "e", "r">>)
       @@ ("balanced" :> <<"b", "a", "l", "a", "n", "c", "e", "d">>)

LowerTable ==
    [A |-> "a", B |-> "b", C |-> "c", D |-> "d", E |-> "e", F |-> "f", G |-> "g", H |-> "h", I |-> "i", J |-> "j", K |-> "k", L |-> "l", M |-> "m", N |-> "n", O |-> "o", P |-> "p", Q |-> "q", R |-> "r", S |-> "s", T |-> "t", U |-> "u", V |-> "v", W |-> "w", X |-> "x", Y |-> "y", Z |-> "z"]

LowerChar(c) == IF c \in DOMAIN LowerTable THEN LowerTable[c] ELSE c

\* str.lower()
Lower(cs) == [k \in 1..Len(cs) |-> LowerChar(cs[k])]

\* needle in hay
Contains(hay, needle) ==
    \E k \in 0..(Len(hay) - Len(needle)) :
        SubSeq(hay, k + 1, k + Len(needle)) = needle

\* raw sentiment strings a label can arrive with
SentimentStrings ==
    {"Positive", "Negative", "Neutral", "positive", "NEGATIVE", "pos", "good", "bad", "mixed", "Very positive", "Somewhat neutral", "Unknown", "", "good!", "negative/positive"}

(***************************************************************************)
(* domain/validation.py                                                    *)
(***************************************************************************)
sentiment_map ==
    [k \in {"positive", "pos", "good", "favorable"} |-> POSITIVE]
    @@ [k \in {"negative", "neg", "bad", "unfavorable"} |-> NEGATIVE]
    @@ [k \in {"neutral", "neither", "mixed", "balanced"} |-> NEUTRAL]

\* faulty variant: the input is compared without lower()
clean_sentiment_no_lower(sentiment) ==
    IF sentiment = ""
    THEN NEUTRAL
    ELSE LET sentiment_lower == Chars[sentiment]
             exact == {k \in DOMAIN sentiment_map : Chars[k] = sentiment_lower}
         IN  IF exact # {}
             THEN sentiment_map[CHOOSE k \in exact : TRUE]
             ELSE IF Contains(sentiment_lower, Chars["positive"]) THEN POSITIVE
             ELSE IF Contains(sentiment_lower, Chars["negative"]) THEN NEGATIVE
             ELSE IF Contains(sentiment_lower, Chars["neutral"]) THEN NEUTRAL
             ELSE NEUTRAL

clean_sentiment(sentiment) ==
    IF sentiment = ""
    THEN NEUTRAL
    ELSE LET sentiment_lower == Lower(Chars[sentiment])
             exact == {k \in DOMAIN sentiment_map : Chars[k] = sentiment_lower}
         IN  IF exact # {}
             THEN sentiment_map[CHOOSE k \in exact : TRUE]
             ELSE IF Contains(sentiment_lower, Chars["positive"]) THEN POSITIVE
             ELSE IF Contains(sentiment_lower, Chars["negative"]) THEN NEGATIVE
             ELSE IF Contains(sentiment_lower, Chars["neutral"]) THEN NEUTRAL
             ELSE NEUTRAL

\* next(iter(frozenset)): the element a frozenset yields first depends on the
\* interpreter's string hashing, so any member can come out
pick_subcategory(category, sentiment) ==
    LET by_cat == IF category \in DOMAIN TAXONOMY
                  THEN TAXONOMY[category] ELSE <<>>
        subcats == IF sentiment \in DOMAIN by_cat THEN by_cat[sentiment] ELSE {}
        all_subcats == IF category \in DOMAIN get_valid_subcategories
                       THEN get_valid_subcategories[category] ELSE {}
    IN  IF subcats # {}
        THEN {<<category, s>> : s \in subcats}
        ELSE IF "Other" \in all_subcats THEN {<<category, "Other">>}
        ELSE IF all_subcats # {} THEN {<<category, s>> : s \in all_subcats}
        ELSE {<<MISCELLANEOUS, "Other">>}

\* faulty variant: only a missing subcategory is filled in, step 5 is skipped
fix_subcategory_missing_only(l) ==
    IF ~Has(l, "subcategory")
    THEN {Put(Put(l, "category", p[1]), "subcategory", p[2]) :
              p \in pick_subcategory(l["category"], l["sentiment"])}
    ELSE {l}

\* Steps 4 and 5
fix_subcategory(l) ==
    IF (~Has(l, "subcategory"))
       \/ ~is_valid_subcategory_for_category(l["category"], l["subcategory"])
    THEN {Put(Put(l, "category", p[1]), "subcategory", p[2]) :
              p \in pick_subcategory(l["category"], l["sentiment"])}
    ELSE {l}

\* Step 3
fix_category(l) ==
    IF l["category"] \notin get_valid_categories
    THEN IF l["category"] \in Sentiment
         THEN LET m == Put(l, "sentiment", l["category"])
              IN  IF Has(m, "subcategory")
                  THEN Put(m, "category",
                           get_category_for_subcategory(m["subcategory"]))
                  ELSE Put(Put(m, "category", MISCELLANEOUS),
                           "subcategory", "Other")
         ELSE LET subcategory == l["category"]
                  parent == get_category_for_subcategory(subcategory)
              IN  IF parent # MISCELLANEOUS \/ subcategory = "Other"
                  THEN Put(Put(l, "subcategory", subcategory),
                           "category", parent)
                  ELSE Put(Put(l, "category", MISCELLANEOUS),
                           "subcategory", "Other")
    ELSE l

\* the set of labels validate_and_fix_label can return for one input
validate_and_fix_label(label) ==
    LET s1 == Put(label, "sentiment",
                  IF Has(label, "sentiment")
                  THEN clean_sentiment(label["sentiment"])
                  ELSE NEUTRAL)
    IN  IF ~Has(s1, "category") /\ ~Has(s1, "subcategory")
        THEN {Put(Put(s1, "category", MISCELLANEOUS), "subcategory", "Other")}
        ELSE LET s2 == IF ~Has(s1, "category")
                       THEN Put(s1, "category",
                                get_category_for_subcategory(s1["subcategory"]))
                       ELSE s1
             IN  fix_subcategory(fix_category(s2))

validate_review_labels(labels) ==
    IF labels = <<>>
    THEN {<<>>}
    ELSE {out \in [1..Len(labels) -> UNION {validate_and_fix_label(labels[k]) : k \in 1..Len(labels)}] :
              \A k \in 1..Len(labels) : out[k] \in validate_and_fix_label(labels[k])}

\* a label meets the taxonomy
TaxonomyValid(l) ==
    /\ Has(l, "category") /\ Has(l, "subcategory") /\ Has(l, "sentiment")
    /\ l["category"] \in get_valid_categories
    /\ l["subcategory"] \in get_valid_subcategories[l["category"]]
    /\ l["sentiment"] \in Sentiment

(***************************************************************************)
(* Label inputs                                                            *)
(***************************************************************************)
Absent == "<absent>"

MkLabel(c, s, t) ==
    [k \in {x \in {"category", "subcategory", "sentiment"} :
                \/ x = "category" /\ c # Absent
                \/ x = "subcategory" /\ s # Absent
                \/ x = "sentiment" /\ t # Absent}
        |-> IF k = "category" THEN c ELSE IF k = "subcategory" THEN s ELSE t]

CategoryInputs ==
    get_valid_categories \cup Sentiment \cup AllSubcategories
        \cup {"Invalid Category", Absent}
SubcategoryInputs ==
    AllSubcategories \cup get_valid_categories
        \cup {"Invalid Subcategory", Absent}
SentimentInputs == SentimentStrings \cup {Absent}

LabelInputs ==
    {MkLabel(c, s, t) : c \in CategoryInputs, s \in SubcategoryInputs,
                        t \in SentimentInputs}

(***************************************************************************)
(* utils/result.py                                                         *)
(***************************************************************************)
Success(v) == [tag |-> "success", value |-> v]
Error(e) == [tag |-> "error", error |-> e]
NoResult == [tag |-> "none"]
is_success(r) == r.tag = "success"

(***************************************************************************)
(* Values of the variables a specification does not use                    *)
(***************************************************************************)
vOff ==
    /\ label_in = MkLabel(Absent, Absent, Absent)
    /\ label_out = MkLabel(Absent, Absent, Absent)
    /\ v_pc = "off"

gOff ==
    /\ g_texts = <<>>
    /\ g_response = [invoke |-> "none"]
    /\ g_result = NoResult
    /\ g_pc = "off"

pOff ==
    /\ pc = "off"
    /\ caller = "none"
    /\ review_texts = <<>>
    /\ ids_arg = [given |-> FALSE, ids |-> <<>>]
    /\ review_ids = <<>>
    /\ batch_size = 1
    /\ i = 0
    /\ final_result = <<>>
    /\ result = NoResult
    /\ llm_calls = <<>>
    /\ svc_log = <<>>
    /\ http_request = [texts |-> <<>>, review_ids |-> <<>>]
    /\ http_response = [status |-> 0]

hOff ==
    /\ settings = [environment |-> "off"]
    /\ clients = <<>>
    /\ current_time = 0
    /\ request = [path |-> ""]
    /\ request_state = <<>>
    /\ response_sent = [status |-> 0]
    /\ raised = [tag |-> "off"]
    /\ reached = "off"
    /\ forwarded = <<>>
    /\ served = 0

fOff ==
    /\ cfg = [api_key |-> "off"]
    /\ fd_pc = "off"
    /\ fd_call = [op |-> "off"]
    /\ fd_events = <<>>
    /\ fd_result = [tag |-> "none"]

cOff ==
    /\ in_flight = {}
    /\ remaining_sent = {}

(***************************************************************************)
(* Validation: one label is handed to validate_and_fix_label               *)
(***************************************************************************)
InitValidation ==
    /\ label_in \in LabelInputs
    /\ label_out = label_in
    /\ v_pc = "call"
    /\ gOff
    /\ pOff
    /\ hOff
    /\ fOff
    /\ cOff

ValidateLabel ==
    /\ v_pc = "call"
    /\ label_out' \in validate_and_fix_label(label_in)
    /\ v_pc' = "done"
    /\ UNCHANGED <<label_in, gVars, pVars, hVars,
                   fVars, cVars>>

NextValidation == ValidateLabel

SpecValidation == InitValidation /\ [][NextValidation]_vars

\* C10: whatever label goes in, the label that comes out has a valid category,
\* a subcategory valid for that category and a sentiment of Positive, Negative
\* or Neutral; there is always an output.
C10_AlwaysTaxonomyValid ==
    /\ v_pc = "done" => TaxonomyValid(label_out)
    /\ v_pc = "call" => validate_and_fix_label(label_in) # {}

\* an input with an unknown category, an unknown subcategory and an
\* unrecognised sentiment has been fixed
C10_Witness ==
    /\ v_pc = "done"
    /\ label_in = MkLabel("Invalid Category", "Invalid Subcategory", "Unknown")
    /\ label_out = MkLabel(MISCELLANEOUS, "Other", NEUTRAL)

\* C11: a label with a valid category, a subcategory valid for it and a
\* sentiment that is already Positive, Negative or Neutral comes back equal
\* to the input.
C11_ValidIsFixedPoint ==
    (v_pc = "done" /\ TaxonomyValid(label_in)) => label_out = label_in

\* the valid label of the unit test has been validated
C11_Witness ==
    /\ v_pc = "done"
    /\ label_in = MkLabel(PRODUCT_SERVICES, "Progress Pace", "Negative")
    /\ label_out = label_in

\* the category field holds something that is no category, no subcategory
\* and no sentiment word
UnknownCategory(l) ==
    /\ Has(l, "category")
    /\ l["category"] \notin get_valid_categories
    /\ l["category"] \notin AllSubcategories
    /\ l["category"] \notin Sentiment

\* C12: when the category is unknown but the subcategory is a taxonomy
\* subcategory, the subcategory is kept and the category becomes its parent;
\* Miscellaneous comes out only when the subcategory gives no parent.
C12_CategoryFromSubcategory ==
    (v_pc = "done" /\ UnknownCategory(label_in)) =>
        /\ (Has(label_in, "subcategory")
                /\ label_in["subcategory"] \in AllSubcategories) =>
               /\ label_out["subcategory"] = label_in["subcategory"]
               /\ label_out["category"]
                      = get_category_for_subcategory(label_in["subcategory"])
        /\ label_out["category"] = MISCELLANEOUS =>
               \/ ~Has(label_in, "subcategory")
               \/ get_category_for_subcategory(label_in["subcategory"])
                      = MISCELLANEOUS

\* C13: when the category field holds a subcategory S and the subcategory
\* field holds the parent category of S, the output has category = parent of
\* S and subcategory = S.
C13_TransposedFieldsSwapped ==
    (/\ v_pc = "done"
     /\ Has(label_in, "category") /\ Has(label_in, "subcategory")
     /\ label_in["category"] \in AllSubcategories
     /\ label_in["subcategory"]
            = get_category_for_subcategory(label_in["category"])) =>
        /\ label_out["category"] = label_in["subcategory"]
        /\ label_out["subcategory"] = label_in["category"]

\* C14: when the category field holds a sentiment word and the label has a
\* sentiment of its own, the output keeps the label's own (cleaned) sentiment
\* and, the subcategory being a taxonomy subcategory, takes the category
\* from the subcategory's parent.
C14_SentimentCategoryKeepsSentiment ==
    (/\ v_pc = "done"
     /\ Has(label_in, "category") /\ label_in["category"] \in Sentiment
     /\ Has(label_in, "sentiment")) =>
        /\ label_out["sentiment"] = clean_sentiment(label_in["sentiment"])
        /\ (Has(label_in, "subcategory")
                /\ label_in["subcategory"] \in AllSubcategories) =>
               label_out["category"]
                   = get_category_for_subcategory(label_in["subcategory"])

\* the sentiment validate_and_fix_label stores is clean_sentiment's result
\* unless the category field held a sentiment word
CleanedDirectly(l) == ~(Has(l, "category") /\ l["category"] \in Sentiment)

\* lower-cased sentiment string of a label
SentimentLower(l) == Lower(Chars[l["sentiment"]])

\* C15 as stated: Positive for every input containing 'positive', Negative
\* for every input containing 'negative', Neutral for every input containing
\* 'neutral', Neutral for absent, empty or unrecognised input, and always one
\* of the three values.
C15_CleanSentimentBySubstring ==
    (v_pc = "done" /\ CleanedDirectly(label_in)) =>
        /\ label_out["sentiment"] \in Sentiment
        /\ IF ~Has(label_in, "sentiment")
           THEN label_out["sentiment"] = NEUTRAL
           ELSE LET s == SentimentLower(label_in)
                    out == label_out["sentiment"]
                IN  /\ Contains(s, Chars["positive"]) => out = POSITIVE
                    /\ Contains(s, Chars["negative"]) => out = NEGATIVE
                    /\ Contains(s, Chars["neutral"]) => out = NEUTRAL
                    /\ (\A k \in DOMAIN sentiment_map :
                            ~Contains(s, Chars[k])) => out = NEUTRAL

\* C15, amended: the three words are looked for in the order positive,
\* negative, neutral, so Negative needs 'negative' without 'positive' and
\* Neutral needs 'neutral' without the other two; an input that is exactly
\* one of the listed synonyms gets that synonym's value; everything else,
\* absent and empty included, is Neutral, and the result is always one of
\* the three values.
C15_CleanSentimentByPrecedence ==
    (v_pc = "done" /\ CleanedDirectly(label_in)) =>
        /\ label_out["sentiment"] \in Sentiment
        /\ IF ~Has(label_in, "sentiment")
           THEN label_out["sentiment"] = NEUTRAL
           ELSE LET s == SentimentLower(label_in)
                    out == label_out["sentiment"]
                    pos == Contains(s, Chars["positive"])
                    neg == Contains(s, Chars["negative"])
                    neu == Contains(s, Chars["neutral"])
                    syn == {k \in DOMAIN sentiment_map : Chars[k] = s}
                IN  /\ pos => out = POSITIVE
                    /\ (neg /\ ~pos) => out = NEGATIVE
                    /\ (neu /\ ~pos /\ ~neg) => out = NEUTRAL
                    /\ \A k \in syn : out = sentiment_map[k]
                    /\ (~pos /\ ~neg /\ ~neu /\ syn = {}) => out = NEUTRAL

\* an input holding both 'negative' and 'positive' has come out Positive
C15_Witness ==
    /\ v_pc = "done"
    /\ label_in = MkLabel(PRODUCT_SERVICES, "Progress Pace", "negative/positive")
    /\ label_out["sentiment"] = POSITIVE

(***************************************************************************)
(* domain/schema.py                                                        *)
(***************************************************************************)
\* Label.validate_sentiment
validate_sentiment(v) ==
    IF v \in Sentiment
    THEN v
    ELSE LET v_lower == Lower(Chars[v])
         IN  IF Contains(v_lower, Lower(Chars[POSITIVE])) THEN POSITIVE
             ELSE IF Contains(v_lower, Lower(Chars[NEGATIVE])) THEN NEGATIVE
             ELSE IF Contains(v_lower, Lower(Chars[NEUTRAL])) THEN NEUTRAL
             ELSE NEUTRAL

\* a JSON value that is not an object (a string, a number) where the code
\* expects a dict
NonDict == [nondict |-> TRUE]
IsDict(x) == ~Has(x, "nondict")

\* Label: the three fields are required
LabelConforms(l) ==
    IsDict(l) /\ Has(l, "category") /\ Has(l, "subcategory") /\ Has(l, "sentiment")

\* Review: review_id, text and labels are required
ReviewConforms(r) ==
    /\ IsDict(r) /\ Has(r, "review_id") /\ Has(r, "text") /\ Has(r, "labels")
    /\ \A k \in 1..Len(r["labels"]) : LabelConforms(r["labels"][k])

\* ReviewOutput
ReviewOutputConforms(reviews) ==
    \A k \in 1..Len(reviews) : ReviewConforms(reviews[k])

\* Label after construction and model_dump()
LabelDump(l) ==
    [category |-> l["category"], subcategory |-> l["subcategory"],
     sentiment |-> validate_sentiment(l["sentiment"])]

(***************************************************************************)
(* services/gemini_service.py                                              *)
(***************************************************************************)
Raise(e) == [tag |-> "raise", exc |-> e]
\* an exception with its message, and the place that raised it
RaiseAt(e, message, at) ==
    [tag |-> "raise", exc |-> e, message |-> message, at |-> at]
NoException == [tag |-> "none"]
Raised(r) == r.tag = "raise"

SeqsOver(S, n) == UNION {[1..m -> S] : m \in 0..n}

\* every way of taking one element of choices[k] for each position k
Choices(choices) ==
    {out \in [1..Len(choices) -> UNION {choices[k] : k \in 1..Len(choices)}] :
        \A k \in 1..Len(choices) : out[k] \in choices[k]}

\* faulty variant: an empty labels list is left empty
_ensure_at_least_one_label_absent_only(review) ==
    IF ~Has(review, "labels")
    THEN Put(review, "labels",
             <<[category |-> MISCELLANEOUS, subcategory |-> "Other"]>>)
    ELSE review

_ensure_at_least_one_label(review) ==
    IF (~Has(review, "labels")) \/ review["labels"] = <<>>
    THEN Put(review, "labels",
             <<[category |-> MISCELLANEOUS, subcategory |-> "Other"]>>)
    ELSE review

\* _clean_results raises when a review or a label is not a dict
CleanRaises(reviews) ==
    \E k \in 1..Len(reviews) :
        \/ ~IsDict(reviews[k])
        \/ /\ Has(reviews[k], "labels")
           /\ \E j \in 1..Len(reviews[k]["labels"]) :
                  ~IsDict(reviews[k]["labels"][j])

CleanReview(review) ==
    LET r == _ensure_at_least_one_label(review)
    IN  {Put(r, "labels", ls) :
            ls \in Choices([j \in 1..Len(r["labels"]) |->
                               validate_and_fix_label(r["labels"][j])])}

\* the outcomes of _clean_results on {"reviews": reviews}
_clean_results(reviews) ==
    IF CleanRaises(reviews)
    THEN {Raise("AttributeError")}
    ELSE {Success([reviews |-> rs]) :
            rs \in Choices([k \in 1..Len(reviews) |-> CleanReview(reviews[k])])}

\* lines 115-131: strict parse, id and text overwrite, clean
StrictPath(texts, response) ==
    IF ~response.strict
    THEN {Raise("OutputParserException")}
    ELSE IF Len(response.reviews) > Len(texts)
    THEN {Raise("IndexError")}
    ELSE _clean_results(
             [k \in 1..Len(response.reviews) |->
                 [review_id |-> ToString(1000 + (k - 1)),
                  text |-> texts[k],
                  labels |-> [j \in 1..Len(response.reviews[k]["labels"]) |->
                                 LabelDump(response.reviews[k]["labels"][j])]]])

\* lines 136-182: JSON extraction, restructuring, clean
FallbackPath(texts, response) ==
    CASE response.json = "none" -> {Raise("ValueError")}
      [] response.json = "scalar" -> {Raise("TypeError")}
      [] response.json = "reviews_scalar" -> {Raise("TypeError")}
      [] response.json = "reviews" -> _clean_results(response.reviews)
      [] response.json = "other" -> _clean_results(<<>>)
      [] response.json = "single" ->
            IF Len(texts) = 0
            THEN {Raise("IndexError")}
            ELSE _clean_results(
                     <<Put(Put(response.reviews[1], "review_id", "1000"),
                           "text", texts[1])>>)
      [] response.json = "list" ->
            LET n == Min(Len(response.reviews), Len(texts))
            IN  IF \E k \in 1..n : ~IsDict(response.reviews[k])
                THEN {Raise("TypeError")}
                ELSE _clean_results(
                         [k \in 1..n |->
                             Put(Put(response.reviews[k], "review_id",
                                     ToString(1000 + (k - 1))),
                                 "text", texts[k])])

\* faulty variant: an exception of the fallback path is not caught
analyze_reviews_uncaught(texts, response) ==
    IF response.invoke = "raise"
    THEN {Error("Error analyzing reviews")}
    ELSE LET primary == StrictPath(texts, response)
         IN  {r \in primary : ~Raised(r)}
             \cup (IF \E r \in primary : Raised(r)
                   THEN FallbackPath(texts, response)
                   ELSE {})

\* the Results analyze_reviews can return for one LLM behaviour; an outcome
\* tagged "raise" is an exception leaving the method
analyze_reviews(texts, response) ==
    IF response.invoke = "raise"
    THEN {Error("Error analyzing reviews")}
    ELSE LET primary == StrictPath(texts, response)
             fallback == FallbackPath(texts, response)
         IN  {r \in primary : ~Raised(r)}
             \cup (IF \E r \in primary : Raised(r)
                   THEN {r \in fallback : ~Raised(r)}
                        \cup (IF \E r \in fallback : Raised(r)
                              THEN {Error("Failed to parse response")}
                              ELSE {})
                   ELSE {})

(***************************************************************************)
(* LLM behaviours                                                          *)
(***************************************************************************)
TextAt(k) == "t" \o ToString(k)
Texts(n) == [k \in 1..n |-> TextAt(k)]

L_valid == MkLabel(PRODUCT_SERVICES, "Progress Pace", "Negative")
L_invalid == MkLabel(AGENT_SPECIFIC, "Fee Collection", "Very positive")
L_partial == MkLabel(Absent, "Knowledge", Absent)

RawLabelLists == {<<>>, <<L_valid>>, <<L_invalid>>, <<L_partial>>, <<NonDict>>}

RawReviews ==
    {[review_id |-> id, text |-> "echo", labels |-> ll] :
        id \in {"1000", "x"}, ll \in RawLabelLists}
    \cup {[review_id |-> "x", text |-> "echo"], NonDict}

LLMResponses ==
    {[invoke |-> "raise"]}
    \cup {[invoke |-> "ok", strict |-> TRUE, json |-> j, reviews |-> rs] :
            j \in {"reviews", "none"},
            rs \in {x \in SeqsOver(RawReviews, MaxLLMReviews) :
                        ReviewOutputConforms(x)}}
    \cup {[invoke |-> "ok", strict |-> FALSE, json |-> j, reviews |-> rs] :
            j \in {"reviews", "list"},
            rs \in SeqsOver(RawReviews, MaxLLMReviews)}
    \cup {[invoke |-> "ok", strict |-> FALSE, json |-> "single",
           reviews |-> <<r>>] :
            r \in {x \in RawReviews : IsDict(x) /\ Has(x, "labels")}}
    \cup {[invoke |-> "ok", strict |-> FALSE, json |-> j, reviews |-> <<>>] :
            j \in {"none", "scalar", "reviews_scalar", "other"}}

(***************************************************************************)
(* GeminiService.analyze_reviews called on a list of texts                 *)
(***************************************************************************)
\* the processor is the only caller and never passes an empty list
InitGemini ==
    /\ g_texts \in {Texts(n) : n \in 1..MaxGeminiTexts}
    /\ g_response \in LLMResponses
    /\ g_result = NoResult
    /\ g_pc = "call"
    /\ vOff
    /\ pOff
    /\ hOff
    /\ fOff
    /\ cOff

AnalyzeReviews ==
    /\ g_pc = "call"
    /\ g_result' \in analyze_reviews(g_texts, g_response)
    /\ g_pc' = "done"
    /\ UNCHANGED <<g_texts, g_response, vVars, pVars, hVars,
                   fVars, cVars>>

NextGemini == AnalyzeReviews

SpecGemini == InitGemini /\ [][NextGemini]_vars

\* the review of the response that result review k was made from
SourceReview(k) == g_response.reviews[k]

NoLabels(r) == IsDict(r) /\ ((~Has(r, "labels")) \/ r["labels"] = <<>>)

\* C7: analyze_reviews ends in a Result, Success or Error, for every LLM
\* behaviour; no exception leaves it.
C7_AlwaysResult ==
    g_pc = "done" => g_result.tag \in {"success", "error"}

\* the LLM's JSON held a label that is not an object, cleaning raised, and the
\* caller got an Error
C7_Witness ==
    /\ g_pc = "done"
    /\ g_response.invoke = "ok"
    /\ g_response.json = "reviews"
    /\ CleanRaises(g_response.reviews)
    /\ g_result = Error("Failed to parse response")

\* C8: every review of a Success has at least one label, every label is
\* taxonomy-valid, and a review that came without labels carries exactly
\* Miscellaneous / Other / Neutral.
C8_LabelsValid ==
    (g_pc = "done" /\ is_success(g_result)) =>
        \A k \in 1..Len(g_result.value.reviews) :
            LET r == g_result.value.reviews[k]
            IN  /\ Has(r, "labels")
                /\ Len(r["labels"]) >= 1
                /\ \A j \in 1..Len(r["labels"]) : TaxonomyValid(r["labels"][j])
                /\ NoLabels(SourceReview(k)) =>
                       r["labels"] = <<MkLabel(MISCELLANEOUS, "Other", NEUTRAL)>>

\* the fallback path produced a Success from a review without labels next to a
\* review whose label had to be repaired
C8_Witness ==
    /\ g_pc = "done"
    /\ is_success(g_result)
    /\ g_response.invoke = "ok"
    /\ ~g_response.strict
    /\ Len(g_result.value.reviews) = 2
    /\ NoLabels(SourceReview(1))
    /\ SourceReview(2)["labels"] = <<L_partial>>

\* C9: after a strict parse, every review of the result has review_id
\* 1000 + index and the input text of that index, whatever the LLM echoed and
\* however many reviews it returned.
C9_StrictOverwrites ==
    (g_pc = "done" /\ g_response.invoke = "ok" /\ g_response.strict
        /\ is_success(g_result)) =>
        \A k \in 1..Len(g_result.value.reviews) :
            /\ g_result.value.reviews[k]["review_id"] = ToString(1000 + (k - 1))
            /\ k <= Len(g_texts)
            /\ g_result.value.reviews[k]["text"] = g_texts[k]

(***************************************************************************)
(* services/llm_service.py: what an LLMService can hand back for one call  *)
(***************************************************************************)
ErrorMsgs == {"llm down", "bad json"}

L_ok == MkLabel(PRODUCT_SERVICES, "Progress Pace", NEGATIVE)
L_echo == MkLabel(COMMUNICATION, "Communication Method", POSITIVE)

\* review j of a service result: either the input text of that position under
\* the service's sequential id, or whatever the LLM echoed
SvcReviewsAt(batch_texts, j) ==
    (IF j <= Len(batch_texts)
     THEN {[review_id |-> ToString(1000 + (j - 1)), text |-> batch_texts[j],
            labels |-> <<L_ok>>]}
     ELSE {})
    \cup {[review_id |-> "x", text |-> "echo", labels |-> <<L_echo>>]}

SvcResults(batch_texts) ==
    {Error(m) : m \in ErrorMsgs}
    \cup {Success([summary |-> "none"])}
    \cup UNION {{Success([reviews |-> rs]) :
                    rs \in Choices([j \in 1..k |-> SvcReviewsAt(batch_texts, j)])} :
                k \in 0..(Len(batch_texts) + 1)}

(***************************************************************************)
(* services/processor.py                                                   *)
(***************************************************************************)
\* s[a:b]
Slice(s, a, b) == SubSeq(s, Min(a, Len(s)) + 1, Min(b, Len(s)))

\* faulty variant: the length of the ids is not compared
ValidateInputs_no_length_check(texts, ids) ==
    IF Len(texts) = 0
    THEN "No reviews provided for analysis"
    ELSE "ok"

\* lines 64-70
ValidateInputs(texts, ids) ==
    IF Len(texts) = 0
    THEN "No reviews provided for analysis"
    ELSE IF ids.given /\ Len(ids.ids) # Len(texts)
    THEN "Number of review IDs must match number of review texts"
    ELSE "ok"

\* line 73
SequentialIds(n) == [k \in 1..n |-> ToString(1000 + (k - 1))]

\* lines 81-83 and 124-126
UpdateIds(reviews, ids) ==
    [j \in 1..Len(reviews) |->
        IF j <= Len(ids) THEN Put(reviews[j], "review_id", ids[j])
        ELSE reviews[j]]

\* faulty variant: an Error becomes a Success without reviews
DirectResult_swallows_error(r, ids) ==
    IF is_success(r) /\ Has(r.value, "reviews")
    THEN Success(Put(r.value, "reviews", UpdateIds(r.value["reviews"], ids)))
    ELSE IF is_success(r) THEN r
    ELSE Success([reviews |-> <<>>])

\* lines 80-85
DirectResult(r, ids) ==
    IF is_success(r) /\ Has(r.value, "reviews")
    THEN Success(Put(r.value, "reviews", UpdateIds(r.value["reviews"], ids)))
    ELSE r

\* line 132
BatchErrorMsg(batch_number, error) ==
    "Error processing batch " \o ToString(batch_number) \o ": " \o error

\* faulty variant: one placeholder stands for the whole failed chunk
Placeholders_first_only(batch_texts, batch_ids, error_msg) ==
    [j \in 1..Min(1, Min(Len(batch_texts), Len(batch_ids))) |->
        [review_id |-> batch_ids[j],
         text |-> batch_texts[j],
         labels |-> <<[category |-> "Miscellaneous", subcategory |-> "Other",
                       sentiment |-> "Neutral", error |-> "Processing failed"]>>,
         processing_error |-> error_msg]]

\* lines 136-147
Placeholders(batch_texts, batch_ids, error_msg) ==
    [j \in 1..Min(Len(batch_texts), Len(batch_ids)) |->
        [review_id |-> batch_ids[j],
         text |-> batch_texts[j],
         labels |-> <<[category |-> "Miscellaneous", subcategory |-> "Other",
                       sentiment |-> "Neutral", error |-> "Processing failed"]>>,
         processing_error |-> error_msg]]

\* lines 120-147: what one chunk adds to final_result["reviews"]
BatchReviews(r, batch_texts, batch_ids, batch_number) ==
    IF is_success(r)
    THEN IF Has(r.value, "reviews")
         THEN UpdateIds(r.value["reviews"], batch_ids)
         ELSE <<>>
    ELSE Placeholders(batch_texts, batch_ids,
                      BatchErrorMsg(batch_number, r.error))

\* faulty variant: a failed chunk fails the whole call
BatchesReturn_abort_on_error(reviews, log) ==
    IF \E k \in 1..Len(log) : ~is_success(log[k])
    THEN Error("Error processing batch")
    ELSE Success([reviews |-> reviews])

\* line 150
BatchesReturn(reviews, log) == Success([reviews |-> reviews])

\* process_reviews up to its first await
ProcessEntry(texts, ids) ==
    LET check == ValidateInputs(texts, ids)
    IN  /\ review_texts' = texts
        /\ ids_arg' = ids
        /\ i' = 0
        /\ final_result' = <<>>
        /\ UNCHANGED <<batch_size, llm_calls, svc_log>>
        /\ IF check # "ok"
           THEN /\ result' = Error(check)
                /\ review_ids' = ids.ids
                /\ pc' = "returned"
           ELSE /\ result' = NoResult
                /\ review_ids' = IF ids.given THEN ids.ids
                                 ELSE SequentialIds(Len(texts))
                /\ pc' = IF Len(texts) <= batch_size THEN "single"
                         ELSE "batches"

Ids(m) == [k \in 1..m |-> "id" \o ToString(k)]

IdArgs ==
    {[given |-> FALSE, ids |-> <<>>]}
    \cup {[given |-> TRUE, ids |-> Ids(m)] : m \in 0..MaxTexts}

\* a caller other than the route (CLI, Freshdesk) calls process_reviews
CallProcessReviews ==
    /\ pc = "idle"
    /\ \E n \in 0..MaxTexts, ids \in IdArgs : ProcessEntry(Texts(n), ids)
    /\ caller' = "direct"
    /\ UNCHANGED <<http_request, http_response, vVars, gVars, hVars,
                   fVars, cVars>>

\* lines 75-85: the whole list goes to the LLM service in one call
AnalyzeDirect ==
    /\ pc = "single"
    /\ \E r \in SvcResults(review_texts) :
          /\ llm_calls' = Append(llm_calls, review_texts)
          /\ svc_log' = Append(svc_log, r)
          /\ result' = DirectResult(r, review_ids)
    /\ pc' = "returned"
    /\ UNCHANGED <<caller, review_texts, ids_arg, review_ids, batch_size, i,
                   final_result, http_request, http_response, vVars, gVars, hVars,
                   fVars, cVars>>

\* lines 109-118: the loop takes the next chunk and calls the LLM service
\* with it; the coroutine is suspended at the await until the call completes
SubmitBatch ==
    /\ pc = "batches"
    /\ i < Len(review_texts)
    /\ llm_calls' = Append(llm_calls, Slice(review_texts, i, i + batch_size))
    /\ pc' = "awaiting"
    /\ UNCHANGED <<caller, review_texts, ids_arg, review_ids, batch_size, i,
                   final_result, result, svc_log, http_request, http_response,
                   vVars, gVars, hVars,
                   fVars, cVars>>

\* faulty variant: a failed chunk is submitted again
AnalyzeBatch_retries_failed ==
    /\ pc = "awaiting"
    /\ LET batch_number == (i \div batch_size) + 1
           batch_texts == Slice(review_texts, i, i + batch_size)
           batch_ids == Slice(review_ids, i, i + batch_size)
       IN  \E r \in SvcResults(batch_texts) :
              LET reviews == final_result
                                 \o BatchReviews(r, batch_texts, batch_ids,
                                                 batch_number)
                  log == Append(svc_log, r)
              IN  /\ svc_log' = log
                  /\ IF ~is_success(r) /\ Len(log) <= MaxTexts
                     THEN /\ pc' = "batches"
                          /\ UNCHANGED <<final_result, i, result>>
                     ELSE /\ final_result' = reviews
                          /\ i' = i + batch_size
                          /\ IF i + batch_size < Len(review_texts)
                             THEN /\ pc' = "batches"
                                  /\ result' = result
                             ELSE /\ pc' = "returned"
                                  /\ result' = BatchesReturn(reviews, log)
    /\ UNCHANGED <<caller, review_texts, ids_arg, review_ids, batch_size,
                   llm_calls, http_request, http_response, vVars, gVars, hVars,
                   fVars, cVars>>

\* lines 118-150: the call completes, the rest of the iteration runs, and the
\* loop goes on or the function returns after the last chunk
AnalyzeBatch ==
    /\ pc = "awaiting"
    /\ LET batch_number == (i \div batch_size) + 1
           batch_texts == Slice(review_texts, i, i + batch_size)
           batch_ids == Slice(review_ids, i, i + batch_size)
       IN  \E r \in SvcResults(batch_texts) :
              LET reviews == final_result
                                 \o BatchReviews(r, batch_texts, batch_ids,
                                                 batch_number)
                  log == Append(svc_log, r)
              IN  /\ svc_log' = log
                  /\ final_result' = reviews
                  /\ i' = i + batch_size
                  /\ IF i + batch_size < Len(review_texts)
                     THEN /\ pc' = "batches"
                          /\ result' = result
                     ELSE /\ pc' = "returned"
                          /\ result' = BatchesReturn(reviews, log)
    /\ UNCHANGED <<caller, review_texts, ids_arg, review_ids, batch_size,
                   llm_calls, http_request, http_response, vVars, gVars, hVars,
                   fVars, cVars>>

(***************************************************************************)
(* api/models.py, api/routes.py, api/app.py: POST /analyze                 *)
(***************************************************************************)
MaxRequestItems == 100
Blank == " "

\* ReviewRequest: conlist(str, min_length=1, max_length=100), no blank text
ReviewRequestValid(req) ==
    /\ Len(req.texts) >= 1
    /\ Len(req.texts) <= MaxRequestItems
    /\ \A k \in 1..Len(req.texts) : req.texts[k] # Blank

SentimentLevel ==
    {"very_negative", "negative", "neutral", "positive", "very_positive"}

\* the string with the given characters
Str(cs) == CHOOSE s \in DOMAIN Chars : Chars[s] = cs

\* lines 152-158
NormalizedSentiment(label) ==
    LET label_sentiment == Lower(Chars[label["sentiment"]])
    IN  IF label_sentiment = Chars["negative"] THEN "negative"
        ELSE IF label_sentiment = Chars["positive"] THEN "positive"
        ELSE "neutral"

ReviewLabels(review_data) ==
    IF Has(review_data, "labels") THEN review_data["labels"] ELSE <<>>

\* lines 142-172: the most common label sentiment, the first one counted
\* winning a tie; the score is in tenths
OverallSentiment(review_data) ==
    LET with_sentiment == SelectSeq(ReviewLabels(review_data),
                                    LAMBDA l : Has(l, "sentiment"))
        norm == [j \in 1..Len(with_sentiment) |->
                    NormalizedSentiment(with_sentiment[j])]
        Count(s) == Cardinality({j \in 1..Len(norm) : norm[j] = s})
        best == CHOOSE j \in 1..Len(norm) :
                    /\ \A m \in 1..Len(norm) : Count(norm[m]) <= Count(norm[j])
                    /\ \A m \in 1..(j - 1) : Count(norm[m]) < Count(norm[j])
    IN  IF Len(norm) = 0 THEN "neutral" ELSE norm[best]

Score(sentiment) ==
    IF sentiment = "negative" THEN 2
    ELSE IF sentiment = "positive" THEN 8
    ELSE 5

\* lines 175-190
Aspects(review_data) ==
    LET full == SelectSeq(ReviewLabels(review_data),
                          LAMBDA l : /\ Has(l, "category")
                                     /\ Has(l, "subcategory")
                                     /\ Has(l, "sentiment"))
    IN  [j \in 1..Len(full) |->
            [name |-> full[j]["category"] \o " - " \o full[j]["subcategory"],
             sentiment |-> Str(Lower(Chars[full[j]["sentiment"]])),
             confidence |-> 5]]

\* lines 193-201
MakeProcessedReview(review_data) ==
    [text |-> review_data["text"],
     sentiment |-> OverallSentiment(review_data),
     score |-> Score(OverallSentiment(review_data)),
     aspects |-> Aspects(review_data),
     keywords |-> <<>>,
     language |-> "en"]

\* lines 121-214: the body of the try block
AnalyzeTryBody(r) ==
    IF is_success(r)
    THEN IF ~Has(r.value, "reviews")
         THEN [kind |-> "raise", exc |-> "KeyError"]
         ELSE IF \E k \in 1..Len(r.value["reviews"]) :
                     ~Has(r.value["reviews"][k], "text")
         THEN [kind |-> "raise", exc |-> "KeyError"]
         ELSE [kind |-> "return",
               body |-> [reviews |->
                   [k \in 1..Len(r.value["reviews"]) |->
                       MakeProcessedReview(r.value["reviews"][k])]]]
    ELSE [kind |-> "raise", exc |-> "HTTPException", status_code |-> 500,
          detail |-> r.error]

\* lines 215-223: except Exception catches whatever the body raised, the
\* HTTPException of line 211 included
RouteAnalyzeReviews(r) ==
    LET out == AnalyzeTryBody(r)
    IN  IF out.kind = "raise"
        THEN [kind |-> "raise", exc |-> "HTTPException", status_code |-> 500,
              detail |-> "An unexpected error occurred during review analysis"]
        ELSE out

\* app.py: exception handlers and response_model validation
RenderResponse(out) ==
    IF out.kind = "raise"
    THEN IF out.exc = "HTTPException"
         THEN [status |-> out.status_code, detail |-> out.detail,
               code |-> "HTTP_" \o ToString(out.status_code)]
         ELSE [status |-> 500, detail |-> "An internal server error occurred",
               code |-> "INTERNAL_SERVER_ERROR"]
    ELSE IF \E k \in 1..Len(out.body.reviews) :
               \/ out.body.reviews[k].sentiment \notin SentimentLevel
               \/ \E j \in 1..Len(out.body.reviews[k].aspects) :
                     out.body.reviews[k].aspects[j].sentiment
                         \notin SentimentLevel
    THEN [status |-> 500,
          detail |-> "Response validation error, please check the logs for details",
          code |-> "RESPONSE_VALIDATION_ERROR"]
    ELSE [status |-> 200, reviews |-> out.body.reviews]

\* the request body: the texts ReviewRequest reads, and the review ids a client
\* may send along, which ReviewRequest has no field for
Requests ==
    {[texts |-> Texts(n), review_ids |-> Ids(n)] : n \in 0..MaxTexts}
    \cup {[texts |-> <<Blank>>, review_ids |-> Ids(1)],
          [texts |-> <<TextAt(1), Blank>>, review_ids |-> Ids(2)]}

\* POST /analyze up to the handler's await of process_reviews
PostAnalyze ==
    /\ pc = "idle"
    /\ caller' = "route"
    /\ \E req \in Requests :
          /\ http_request' = req
          /\ IF ReviewRequestValid(req)
             THEN /\ ProcessEntry(req.texts, [given |-> FALSE, ids |-> <<>>])
                  /\ UNCHANGED http_response
             ELSE /\ http_response' = [status |-> 422,
                                       detail |-> "Validation error",
                                       code |-> "VALIDATION_ERROR"]
                  /\ pc' = "responded"
                  /\ UNCHANGED <<review_texts, ids_arg, review_ids, batch_size,
                                 i, final_result, result, llm_calls, svc_log>>
    /\ UNCHANGED <<vVars, gVars, hVars,
                   fVars, cVars>>

\* the handler resumes with the processor's Result and the response goes out
RouteRespond ==
    /\ pc = "returned"
    /\ caller = "route"
    /\ http_response' = RenderResponse(RouteAnalyzeReviews(result))
    /\ pc' = "responded"
    /\ UNCHANGED <<caller, review_texts, ids_arg, review_ids, batch_size, i,
                   final_result, result, llm_calls, svc_log, http_request,
                   vVars, gVars, hVars,
                   fVars, cVars>>

Init ==
    /\ pc = "idle"
    /\ caller = "none"
    /\ review_texts = <<>>
    /\ ids_arg = [given |-> FALSE, ids |-> <<>>]
    /\ review_ids = <<>>
    /\ batch_size \in 1..MaxBatch
    /\ i = 0
    /\ final_result = <<>>
    /\ result = NoResult
    /\ llm_calls = <<>>
    /\ svc_log = <<>>
    /\ http_request = [texts |-> <<>>, review_ids |-> <<>>]
    /\ http_response = [status |-> 0]
    /\ vOff
    /\ gOff
    /\ hOff
    /\ fOff
    /\ cOff

Next ==
    \/ CallProcessReviews
    \/ PostAnalyze
    \/ AnalyzeDirect
    \/ SubmitBatch
    \/ AnalyzeBatch
    \/ RouteRespond

Spec == Init /\ [][Next]_vars

(***************************************************************************)
(* Properties of process_reviews and POST /analyze                         *)
(***************************************************************************)
Returned == pc \in {"returned", "responded"} /\ result.tag # "none"

IdsMismatch == ids_arg.given /\ Len(ids_arg.ids) # Len(review_texts)

\* the call went into _process_in_batches
InBatches == Len(review_texts) > batch_size /\ ~IdsMismatch

\* C1: a call with more texts than the batch size returns Success whatever the
\* LLM service answered for each chunk, also when every chunk failed.
C1_BatchesAlwaysSuccess ==
    (Returned /\ InBatches) => result.tag = "success"

\* at least two chunks, every one of them answered with Error
C1_Witness ==
    /\ Returned /\ InBatches
    /\ Len(svc_log) >= 2
    /\ \A k \in 1..Len(svc_log) : svc_log[k].tag = "error"
    /\ result.tag = "success"

ExpectedId(k) ==
    IF ids_arg.given THEN ids_arg.ids[k] ELSE ToString(1000 + (k - 1))

\* C2: a Success for n texts holds exactly n reviews, review k with the id of
\* position k (the caller's, or 1000 + k when none were given) and the text of
\* position k.
C2_OneReviewPerText ==
    (Returned /\ Len(review_texts) >= 1 /\ result.tag = "success") =>
        /\ Has(result.value, "reviews")
        /\ Len(result.value["reviews"]) = Len(review_texts)
        /\ \A k \in 1..Len(review_texts) :
              /\ result.value["reviews"][k]["review_id"] = ExpectedId(k)
              /\ result.value["reviews"][k]["text"] = review_texts[k]

\* C3: when a chunk's call returns Error, each text of the chunk gets one
\* placeholder (own id and text, the single label Miscellaneous / Other /
\* Neutral with an error marker, processing_error with the chunk's error), the
\* loop goes on with the next chunk, and what was accumulated before stays as
\* it was, up to the returned value.
C3_ChunkErrorKeepsEarlier ==
    [][(pc = "awaiting" /\ Len(svc_log') = Len(svc_log) + 1) =>
        LET r == svc_log'[Len(svc_log')]
            hi == Min(i + batch_size, Len(review_texts))
            old == Len(final_result)
        IN  /\ Len(final_result') >= old
            /\ SubSeq(final_result', 1, old) = final_result
            /\ r.tag = "error" =>
                  /\ Len(final_result') = old + (hi - i)
                  /\ \A j \in 1..(hi - i) :
                        final_result'[old + j] =
                            [review_id |-> review_ids[i + j],
                             text |-> review_texts[i + j],
                             labels |-> <<[category |-> "Miscellaneous",
                                           subcategory |-> "Other",
                                           sentiment |-> "Neutral",
                                           error |-> "Processing failed"]>>,
                             processing_error |->
                                 "Error processing batch "
                                     \o ToString(Len(svc_log')) \o ": "
                                     \o r.error]
                  /\ hi < Len(review_texts) => pc' = "batches"
            /\ pc' = "returned" =>
                  /\ result'.tag = "success"
                  /\ result'.value["reviews"] = final_result'
      ]_vars

\* a first chunk that succeeded with reviews, a second one that failed, and
\* both the reviews and the placeholders in the returned value
C3_Witness ==
    /\ Returned /\ InBatches
    /\ Len(svc_log) >= 2
    /\ svc_log[1].tag = "success"
    /\ Has(svc_log[1].value, "reviews")
    /\ Len(svc_log[1].value["reviews"]) >= 1
    /\ svc_log[2].tag = "error"
    /\ ~Has(result.value["reviews"][1], "processing_error")
    /\ \E k \in 1..Len(result.value["reviews"]) :
          Has(result.value["reviews"][k], "processing_error")

\* process_reviews has been entered
ProcessCalled ==
    pc \in {"single", "batches", "awaiting"} \/ result.tag # "none"

\* C4: with no texts, or with ids whose number differs from the number of
\* texts, process_reviews returns Error and the LLM service is never called.
C4_RejectsWithoutLLM ==
    (ProcessCalled /\ (Len(review_texts) = 0 \/ IdsMismatch)) =>
        /\ result.tag = "error"
        /\ llm_calls = <<>>

\* texts with a different number of ids were rejected
C4_Witness ==
    /\ Returned
    /\ Len(review_texts) >= 1
    /\ IdsMismatch
    /\ result = Error("Number of review IDs must match number of review texts")
    /\ llm_calls = <<>>

\* C5: when the processor returns Error for a POST /analyze request, the
\* response has status 502 and its detail is the processor's error text.
C5_ProcessorError502 ==
    (pc = "responded" /\ caller = "route" /\ result.tag = "error") =>
        /\ http_response.status = 502
        /\ Has(http_response, "detail")
        /\ http_response.detail = result.error

\* C6: a successful POST /analyze answers with one review per submitted
\* review, and review k carries the review_id the caller sent at position k.
C6_ResponseCarriesCallerIds ==
    (pc = "responded" /\ caller = "route" /\ http_response.status = 200) =>
        /\ Len(http_response.reviews) = Len(http_request.texts)
        /\ \A k \in 1..Len(http_response.reviews) :
              /\ Has(http_response.reviews[k], "review_id")
              /\ http_response.reviews[k]["review_id"]
                     = http_request.review_ids[k]

(***************************************************************************)
(* api/middleware.py, api/app.py, api/routes.py: one request through the   *)
(* middleware stack, the router and the exception handlers                 *)
(***************************************************************************)
\* paths and path prefixes, spelled out for str.startswith
PathChars ==
    ("/health" :> <<"/", "h", "e", "a", "l", "t", "h">>)
    @@ ("/docs" :> <<"/", "d", "o", "c", "s">>)
    @@ ("/redoc" :> <<"/", "r", "e", "d", "o", "c">>)
    @@ ("/openapi.json" :> <<"/", "o", "p", "e", "n", "a", "p", "i", ".",
            "j", "s", "o", "n">>)
    @@ ("/analyze" :> <<"/", "a", "n", "a", "l", "y", "z", "e">>)
    @@ ("/admin" :> <<"/", "a", "d", "m", "i", "n">>)
    @@ ("/admin/queue-status" :> <<"/", "a", "d", "m", "i", "n", "/", "q",
            "u", "e", "u", "e", "-", "s", "t", "a", "t", "u", "s">>)
    @@ ("/admin/reprocess/job_1" :> <<"/", "a", "d", "m", "i", "n", "/",
            "r", "e", "p", "r", "o", "c", "e", "s", "s", "/", "j", "o", "b",
            "_", "1">>)

startswith(s, prefix) ==
    /\ Len(prefix) <= Len(s)
    /\ SubSeq(s, 1, Len(prefix)) = prefix

RequestPaths ==
    {"/health", "/docs", "/analyze", "/admin/queue-status",
     "/admin/reprocess/job_1"}
ClientHosts == {"10.0.0.1", "10.0.0.2"}

\* config/settings.py
DefaultExcludedPaths == {"/docs", "/redoc", "/openapi.json", "/health"}
RequestsLimits == 1..2
WindowSeconds == 1..2
\* the configurations explored: production (the only environment with the
\* rate limiter) without authentication for every limit and window and with
\* API-key authentication for one, and development with every
\* authentication type and two exclusion lists
SettingsChoices ==
    [environment : {"production"},
     auth_type : {"none"},
     requests_limit : RequestsLimits,
     window_seconds : WindowSeconds,
     auth_excluded_paths : {DefaultExcludedPaths},
     api_keys : {{"dev-api-key"}},
     api_key_header : {"X-API-Key"},
     jwt_header : {"Authorization"}]
    \cup
    [environment : {"production"},
     auth_type : {"api_key"},
     requests_limit : {1},
     window_seconds : {2},
     auth_excluded_paths : {DefaultExcludedPaths},
     api_keys : {{"dev-api-key"}},
     api_key_header : {"X-API-Key"},
     jwt_header : {"Authorization"}]
    \cup
    [environment : {"development"},
     auth_type : {"none", "api_key", "jwt"},
     requests_limit : {100},
     window_seconds : {60},
     auth_excluded_paths : {DefaultExcludedPaths,
                            DefaultExcludedPaths \cup {"/admin"}},
     api_keys : {{"dev-api-key"}},
     api_key_header : {"X-API-Key"},
     jwt_header : {"Authorization"}]

\* any(request.url.path.startswith(path) for path in self.excluded_paths)
is_excluded(path, excluded_paths) ==
    \E e \in excluded_paths : startswith(PathChars[path], PathChars[e])

\* api/models.py ErrorResponse, dumped with .dict() / .model_dump(): the
\* timestamp field stays a datetime object
ErrorResponse(detail, code, path) ==
    [detail |-> detail, code |-> code, path |-> path,
     timestamp |-> [type |-> "datetime"]]

\* json.loads(json.dumps(obj, cls=CustomJSONEncoder)): datetime -> ISO text
safe_serialize(content) ==
    [content EXCEPT !.timestamp =
        IF @.type = "datetime" THEN [type |-> "str"] ELSE @]

\* JSONResponse renders its content with json.dumps, which raises TypeError
\* for a datetime object
JSONResponse(status_code, content) ==
    IF content.timestamp.type = "datetime"
    THEN RaiseAt("TypeError", "Object of type datetime is not JSON serializable",
                 "middleware")
    ELSE [tag |-> "response", status |-> status_code, code |-> content.code,
          detail |-> content.detail, headers |-> <<>>]

\* a response a route function returns
RouteResponse(status_code) ==
    [tag |-> "response", status |-> status_code, code |-> "", detail |-> "",
     headers |-> <<>>]

HTTPException(status_code, detail) ==
    [tag |-> "raise", exc |-> "HTTPException", status_code |-> status_code,
     detail |-> detail]

HttpCode(status_code) ==
    CASE status_code = 403 -> "HTTP_403"
      [] status_code = 404 -> "HTTP_404"
      [] OTHER -> "HTTP_500"

\* api/app.py exception handlers
http_exception_handler(exc, path) ==
    JSONResponse(exc.status_code,
                 safe_serialize(ErrorResponse(exc.detail,
                                              HttpCode(exc.status_code), path)))

\* faulty variant: the detail carries str(exc)
general_exception_handler_leaks_message(exc, path) ==
    LET is_response_validation == exc.exc = "ResponseValidationError"
    IN  JSONResponse(500, safe_serialize(ErrorResponse(
            exc.message,
            IF is_response_validation THEN "RESPONSE_VALIDATION_ERROR"
            ELSE "INTERNAL_SERVER_ERROR",
            path)))

general_exception_handler(exc, path) ==
    LET is_response_validation == exc.exc = "ResponseValidationError"
    IN  JSONResponse(500, safe_serialize(ErrorResponse(
            IF is_response_validation
            THEN "Response validation error, please check the logs for details"
            ELSE "An internal server error occurred",
            IF is_response_validation THEN "RESPONSE_VALIDATION_ERROR"
            ELSE "INTERNAL_SERVER_ERROR",
            path)))

\* Starlette's ExceptionMiddleware hands an HTTPException to its handler and
\* lets every other exception through
ExceptionMiddleware(r, path) ==
    IF Raised(r) /\ r.exc = "HTTPException"
    THEN http_exception_handler(r, path)
    ELSE r

\* Starlette's ServerErrorMiddleware, outermost: whatever exception comes out
\* of the stack goes to the handler registered for Exception
ServerErrorMiddleware(r, path) ==
    IF Raised(r) THEN general_exception_handler(r, path) ELSE r

\* request.state
NoneValue == "<None>"
getattr(state, name, default) ==
    IF Has(state, name) THEN state[name] ELSE default

\* faulty variant: any role that is set passes
verify_admin_role_any_role(state) ==
    IF getattr(state, "user_role", NoneValue) = NoneValue
    THEN HTTPException(403, "Admin access required")
    ELSE [tag |-> "ok"]

verify_admin_role(state) ==
    IF getattr(state, "user_role", NoneValue) # "admin"
    THEN HTTPException(403, "Admin access required")
    ELSE [tag |-> "ok"]

is_admin_path(path) == startswith(PathChars[path], PathChars["/admin"])

\* what a route function can end in: /analyze builds its services first
\* (get_services), which can raise; /docs exists outside production only
RouteOutcomes(path, environment) ==
    IF path = "/analyze"
    THEN {RouteResponse(200),
          RaiseAt("Exception", "credentials not found", "get_services"),
          RaiseAt("KeyError", "'text'", "analyze_reviews"),
          RaiseAt("ResponseValidationError",
                  "Input should be less than or equal to 1", "response_model")}
    ELSE IF path = "/docs" /\ environment = "production"
    THEN {HTTPException(404, "Not Found")}
    ELSE {RouteResponse(200)}

\* routes.py lines 216-223: the route's own handler for whatever its body
\* raises
analyze_reviews_except(e) ==
    HTTPException(500, "An unexpected error occurred during review analysis")

\* the router with its dependencies: how far the request got and what came
\* back (a response or an exception)
Endpoint(path, state, outcome) ==
    IF is_admin_path(path)
    THEN LET v == verify_admin_role(state)
         IN  IF Raised(v)
             THEN [reached |-> "dependency", result |-> v, raised |-> v]
             ELSE [reached |-> "route", result |-> RouteResponse(200),
                   raised |-> NoException]
    ELSE IF Raised(outcome) /\ outcome.exc = "HTTPException"
    THEN [reached |-> "router", result |-> outcome, raised |-> outcome]
    ELSE IF Raised(outcome) /\ outcome.at = "analyze_reviews"
    THEN [reached |-> "route", result |-> analyze_reviews_except(outcome),
          raised |-> outcome]
    ELSE [reached |-> "route", result |-> outcome,
          raised |-> IF Raised(outcome) THEN outcome ELSE NoException]

\* request headers: the API key header holds a string or is missing; the
\* Authorization header is given by its parts between single spaces, as
\* split(" ") sees them (no parts: header missing or empty)
ApiKeyValues == {Absent, "", "dev-api-key", "wrong-key"}
Tokens ==
    {"admin-token", "user-token", "norole-token", "expired-token", "garbage"}
AuthorizationValues ==
    {<<>>, <<"Basic", "admin-token">>} \cup {<<"Bearer", tok>> : tok \in Tokens}

\* the requests sent to an application: the header its authentication
\* middleware reads takes every value, a header nothing reads is left out
HttpRequests(auth_type) ==
    {[client |-> c, path |-> p, api_key |-> k, authorization |-> a] :
        c \in ClientHosts, p \in RequestPaths,
        k \in IF auth_type = "api_key" THEN ApiKeyValues ELSE {Absent},
        a \in IF auth_type = "jwt" THEN AuthorizationValues ELSE {<<>>}}

\* jwt.decode under the configured secret and algorithm
jwt_decode(token) ==
    CASE token = "admin-token" ->
             [tag |-> "ok", payload |-> [sub |-> "alice", role |-> "admin"]]
      [] token = "user-token" ->
             [tag |-> "ok", payload |-> [sub |-> "bob", role |-> "user"]]
      [] token = "norole-token" ->
             [tag |-> "ok", payload |-> [sub |-> "carol"]]
      [] token = "expired-token" -> Raise("ExpiredSignatureError")
      [] OTHER -> Raise("InvalidTokenError")

NoHeaders == [h \in {} |-> ""]
NoState == [a \in {} |-> ""]
Passed(state) == [pass |-> TRUE, state |-> state, result |-> NoResult]
Stopped(r) == [pass |-> FALSE, state |-> NoState, result |-> r]

_is_valid_api_key(api_key) == api_key \in settings.api_keys

APIKeyAuthMiddleware(req) ==
    IF is_excluded(req.path, settings.auth_excluded_paths)
    THEN Passed(NoState)
    ELSE IF req.api_key \in {Absent, ""} \/ ~_is_valid_api_key(req.api_key)
    THEN Stopped(JSONResponse(401, ErrorResponse("Invalid or missing API key",
                                        "INVALID_API_KEY", req.path)))
    ELSE Passed(NoState)

JWTAuthMiddleware(req) ==
    IF is_excluded(req.path, settings.auth_excluded_paths)
    THEN Passed(NoState)
    ELSE LET auth_header == req.authorization
         IN  IF Len(auth_header) < 2 \/ auth_header[1] # "Bearer"
             THEN Stopped(JSONResponse(401,
                              ErrorResponse("Invalid or missing authentication token",
                                            "INVALID_TOKEN", req.path)))
             ELSE LET decoded == jwt_decode(auth_header[2])
                  IN  IF ~Raised(decoded)
                      THEN Passed(
                             Put(Put(NoState, "user",
                                     getattr(decoded.payload, "sub", NoneValue)),
                                 "user_role",
                                 getattr(decoded.payload, "role", NoneValue)))
                      ELSE IF decoded.exc = "ExpiredSignatureError"
                      THEN Stopped(JSONResponse(401,
                               ErrorResponse("Authentication token has expired",
                                             "TOKEN_EXPIRED", req.path)))
                      ELSE Stopped(JSONResponse(401,
                               ErrorResponse("Invalid authentication token",
                                             "INVALID_TOKEN", req.path)))

\* setup_middlewares lines 308-322
AuthMiddleware(req) ==
    CASE settings.auth_type = "api_key" -> APIKeyAuthMiddleware(req)
      [] settings.auth_type = "jwt" -> JWTAuthMiddleware(req)
      [] OTHER -> Passed(NoState)

\* lines 111-119: the client's list without the timestamps that have left
\* the window
PrunedTimestamps(client_ip, now) ==
    LET InWindow(timestamp) == now - timestamp < settings.window_seconds
    IN  SelectSeq(getattr(clients, client_ip, <<>>), InWindow)

\* faulty variant: a rejected attempt is recorded as well
RateLimitingMiddleware_records_rejected(req, now) ==
    IF settings.environment # "production"
    THEN [installed |-> FALSE, pass |-> TRUE, clients |-> clients,
          result |-> NoResult]
    ELSE LET kept == PrunedTimestamps(req.client, now)
         IN  IF Len(kept) >= settings.requests_limit
             THEN [installed |-> TRUE, pass |-> FALSE,
                   clients |-> Put(clients, req.client, Append(kept, now)),
                   result |-> JSONResponse(429,
                       ErrorResponse("Rate limit exceeded",
                                     "RATE_LIMIT_EXCEEDED", req.path))]
             ELSE [installed |-> TRUE, pass |-> TRUE,
                   clients |-> Put(clients, req.client, Append(kept, now)),
                   result |-> NoResult]

\* lines 104-135, up to call_next; installed in production only (line 301)
RateLimitingMiddleware(req, now) ==
    IF settings.environment # "production"
    THEN [installed |-> FALSE, pass |-> TRUE, clients |-> clients,
          result |-> NoResult]
    ELSE LET kept == PrunedTimestamps(req.client, now)
         IN  IF Len(kept) >= settings.requests_limit
             THEN [installed |-> TRUE, pass |-> FALSE,
                   clients |-> Put(clients, req.client, kept),
                   result |-> JSONResponse(429,
                       ErrorResponse("Rate limit exceeded",
                                     "RATE_LIMIT_EXCEEDED", req.path))]
             ELSE [installed |-> TRUE, pass |-> TRUE,
                   clients |-> Put(clients, req.client, Append(kept, now)),
                   result |-> NoResult]

\* lines 140-144: the headers the limiter adds to the response it got back
RateLimitHeaders(r, client_list, now) ==
    [r EXCEPT !.headers =
        Put(Put(Put(@, "X-RateLimit-Limit", settings.requests_limit),
                "X-RateLimit-Remaining",
                settings.requests_limit - Len(client_list)),
            "X-RateLimit-Reset", now + settings.window_seconds)]

\* RequestIdMiddleware lines 37-44
RequestIdHeader(r, request_id) ==
    [r EXCEPT !.headers = Put(@, "X-Request-ID", request_id)]

\* the number of requests the limiter has passed on for a client at a time
ForwardCount(log, client_ip, t) == getattr(log, <<client_ip, t>>, 0)

(***************************************************************************)
(* One request at a time through the assembled application.  The stack,    *)
(* outermost first (add_middleware puts the middleware added last on the   *)
(* outside): ServerErrorMiddleware, the authentication middleware, the     *)
(* rate limiter, LoggingMiddleware, RequestIdMiddleware, ExceptionMiddle-  *)
(* ware, router.                                                           *)
(***************************************************************************)
InitHttp ==
    /\ settings \in SettingsChoices
    /\ clients = NoState
    /\ current_time = 0
    /\ request = [path |-> ""]
    /\ request_state = NoState
    /\ response_sent = [status |-> 0]
    /\ raised = NoException
    /\ reached = "none"
    /\ forwarded = NoState
    /\ served = 0
    /\ vOff
    /\ gOff
    /\ pOff
    /\ fOff
    /\ cOff

HandleRequest ==
    /\ served < MaxRequests
    /\ \E req \in HttpRequests(settings.auth_type), now \in current_time..MaxTime :
       \E outcome \in RouteOutcomes(req.path, settings.environment) :
          LET auth == AuthMiddleware(req)
              limiter == RateLimitingMiddleware(req, now)
              request_id == served + 1
              state == Put(auth.state, "request_id", request_id)
              endpoint == Endpoint(req.path, state, outcome)
              inner == ExceptionMiddleware(endpoint.result, req.path)
              with_id == IF Raised(inner) THEN inner
                         ELSE RequestIdHeader(inner, request_id)
              limited == IF ~limiter.pass THEN limiter.result
                         ELSE IF limiter.installed /\ ~Raised(with_id)
                         THEN RateLimitHeaders(with_id,
                                  limiter.clients[req.client], now)
                         ELSE with_id
              out == IF auth.pass THEN limited ELSE auth.result
              through == auth.pass /\ limiter.pass
          IN  /\ response_sent' = ServerErrorMiddleware(out, req.path)
              /\ raised' = IF ~auth.pass
                           THEN IF Raised(auth.result) THEN auth.result
                                ELSE NoException
                           ELSE IF ~limiter.pass
                           THEN IF Raised(limiter.result) THEN limiter.result
                                ELSE NoException
                           ELSE endpoint.raised
              /\ reached' = IF ~auth.pass THEN "auth"
                            ELSE IF ~limiter.pass THEN "rate_limit"
                            ELSE endpoint.reached
              /\ request_state' = IF through THEN state ELSE auth.state
              /\ clients' = IF auth.pass THEN limiter.clients ELSE clients
              /\ forwarded' =
                    IF through /\ limiter.installed
                    THEN Put(forwarded, <<req.client, now>>,
                             ForwardCount(forwarded, req.client, now) + 1)
                    ELSE forwarded
              /\ request' = req
              /\ current_time' = now
              /\ served' = served + 1
    /\ UNCHANGED <<settings, vVars, gVars, pVars, fVars, cVars>>

NextHttp == HandleRequest

SpecHttp == InitHttp /\ [][NextHttp]_vars

\* the number of requests of a client the limiter passed on at the times
\* lo..hi
RECURSIVE SumForwarded(_, _, _, _)
SumForwarded(log, client_ip, lo, hi) ==
    IF lo > hi
    THEN 0
    ELSE ForwardCount(log, client_ip, lo)
             + SumForwarded(log, client_ip, lo + 1, hi)

\* admitted requests of a client that are younger than window_seconds at
\* the time now
AdmittedInWindow(log, client_ip, now) ==
    SumForwarded(log, client_ip, now - settings.window_seconds + 1, now)

\* the last request got to the rate limiter
AtLimiter ==
    /\ served > 0
    /\ settings.environment = "production"
    /\ reached # "auth"

\* C16: of one client the limiter passes on at most requests_limit requests
\* within any span of window_seconds, and a request that arrives while the
\* client has requests_limit admitted requests younger than window_seconds
\* gets 429 RATE_LIMIT_EXCEEDED.
C16_AtMostLimitPerWindow ==
    /\ \A c \in ClientHosts, t \in 0..MaxTime :
           AdmittedInWindow(forwarded, c, t) <= settings.requests_limit
    /\ (AtLimiter /\ reached = "rate_limit") =>
           /\ response_sent.status = 429
           /\ response_sent.code = "RATE_LIMIT_EXCEEDED"
    /\ (AtLimiter /\ reached # "rate_limit") =>
           ForwardCount(forwarded, request.client, current_time) > 0

\* C17: a request the rate limiter rejects leaves no timestamp behind (the
\* client's list only loses the timestamps that left the window), is not
\* passed on and runs no route function; and the limiter rejects only while
\* the client has requests_limit admitted requests younger than
\* window_seconds, so the client is admitted again as soon as the oldest of
\* them is older than that.
C17_RejectedNotRecorded ==
    [][/\ reached' = "rate_limit" =>
              /\ clients'[request'.client]
                     = PrunedTimestamps(request'.client, current_time')
              /\ \A c \in ClientHosts \ {request'.client} :
                     getattr(clients', c, <<>>) = getattr(clients, c, <<>>)
              /\ forwarded' = forwarded
              /\ AdmittedInWindow(forwarded, request'.client, current_time')
                     >= settings.requests_limit
       /\ (/\ settings.environment = "production"
           /\ reached' # "auth"
           /\ AdmittedInWindow(forwarded, request'.client, current_time')
                  < settings.requests_limit) =>
              /\ reached' # "rate_limit"
              /\ ForwardCount(forwarded', request'.client, current_time')
                     = ForwardCount(forwarded, request'.client,
                                    current_time') + 1
      ]_vars

\* with a limit of one, a client was admitted, rejected while limited and
\* admitted again after the window
C17_Witness ==
    /\ settings.environment = "production"
    /\ settings.auth_type = "none"
    /\ settings.requests_limit = 1
    /\ served = 3
    /\ reached = "route"
    /\ \E t \in 0..(current_time - 1) :
           /\ ForwardCount(forwarded, request.client, t) = 1
           /\ ForwardCount(forwarded, request.client, current_time) = 1
    /\ \A c \in ClientHosts \ {request.client} : ~Has(clients, c)

\* C18: a request to /docs, /redoc, /openapi.json or /health passes the rate
\* limiter untouched: it is never rejected, whatever the client's count, and
\* the client's list stays as it was.
C18_ExcludedPathsBypass ==
    [][(/\ is_excluded(request'.path, DefaultExcludedPaths)
        /\ reached' # "auth") =>
           /\ reached' # "rate_limit"
           /\ response_sent'.status # 429
           /\ clients' = clients
      ]_vars

\* C19: with API-key authentication, a request to a path that is not
\* excluded gets past the middleware only with a listed key in the header;
\* with a missing or unlisted key it is stopped there with 401
\* INVALID_API_KEY.
C19_ApiKeyRequired ==
    (/\ served > 0
     /\ settings.auth_type = "api_key"
     /\ ~is_excluded(request.path, settings.auth_excluded_paths)) =>
        /\ reached # "auth" => request.api_key \in settings.api_keys
        /\ request.api_key \notin settings.api_keys =>
               /\ reached = "auth"
               /\ response_sent.status = 401
               /\ response_sent.code = "INVALID_API_KEY"

\* C20: an admin route returns its payload only when request.state carries
\* user_role 'admin'; a request that gets to the admin-role dependency
\* without it gets 403; the role is set by a successful JWT decode only, so
\* with auth_type 'none' or 'api_key', and for a path the JWT middleware
\* excludes, no admin request gets the payload.
C20_AdminRoleRequired ==
    (served > 0 /\ is_admin_path(request.path)) =>
        LET role == getattr(request_state, "user_role", NoneValue)
            bypassed == is_excluded(request.path, settings.auth_excluded_paths)
        IN  /\ reached = "route" =>
                   /\ role = "admin"
                   /\ response_sent.status = 200
            /\ (reached \notin {"auth", "rate_limit"} /\ role # "admin") =>
                   /\ reached = "dependency"
                   /\ response_sent.status = 403
            /\ Has(request_state, "user_role") =>
                   /\ settings.auth_type = "jwt"
                   /\ ~bypassed
                   /\ Len(request.authorization) = 2
                   /\ ~Raised(jwt_decode(request.authorization[2]))
            /\ (settings.auth_type \in {"none", "api_key"} \/ bypassed) =>
                   response_sent.status # 200

\* a request with an administrator's token got the queue status
C20_Witness ==
    /\ served > 0
    /\ request.path = "/admin/queue-status"
    /\ request.authorization = <<"Bearer", "admin-token">>
    /\ reached = "route"
    /\ response_sent.status = 200

\* C21: every request gets a request id that is stored on request.state and
\* comes back as the X-Request-ID header of its response, whoever produces
\* the response: the route, an exception handler, or the rate limiter or the
\* authentication middleware when it rejects the request.
C21_RequestIdOnEveryResponse ==
    served > 0 =>
        /\ Has(request_state, "request_id")
        /\ Has(response_sent.headers, "X-Request-ID")
        /\ response_sent.headers["X-Request-ID"] = request_state["request_id"]

\* an exception came up while the request was handled that is neither a
\* request-validation failure nor an HTTPException
UnexpectedException ==
    /\ served > 0
    /\ Raised(raised)
    /\ raised.exc \notin {"HTTPException", "RequestValidationError"}

\* C22 as stated: every such exception is answered 500 with code
\* INTERNAL_SERVER_ERROR and a generic detail without the exception's message
C22_InternalServerError ==
    UnexpectedException =>
        /\ response_sent.status = 500
        /\ response_sent.code = "INTERNAL_SERVER_ERROR"
        /\ response_sent.detail = "An internal server error occurred"
        /\ response_sent.detail # raised.message

\* C22: every such exception is answered 500 with a fixed detail that does
\* not carry the exception's message; the code is HTTP_500 when the body of
\* analyze_reviews raised it, RESPONSE_VALIDATION_ERROR when it is a
\* response-validation error, and INTERNAL_SERVER_ERROR otherwise.
C22_GenericServerError ==
    UnexpectedException =>
        /\ response_sent.status = 500
        /\ response_sent.detail # raised.message
        /\ CASE raised.at = "analyze_reviews" ->
                  /\ response_sent.code = "HTTP_500"
                  /\ response_sent.detail
                       = "An unexpected error occurred during review analysis"
             [] raised.exc = "ResponseValidationError" ->
                  /\ response_sent.code = "RESPONSE_VALIDATION_ERROR"
                  /\ response_sent.detail
                       = "Response validation error, please check the logs for details"
             [] OTHER ->
                  /\ response_sent.code = "INTERNAL_SERVER_ERROR"
                  /\ response_sent.detail = "An internal server error occurred"

\* each of the three kinds of exception has been answered
C22_Witness ==
    /\ UnexpectedException
    /\ raised.exc = "ResponseValidationError"
    /\ response_sent.status = 500
    /\ response_sent.code = "RESPONSE_VALIDATION_ERROR"

\* the chunk of position k (from 1) of the call's texts
Chunk(k) == Slice(review_texts, (k - 1) * batch_size, k * batch_size)

\* ceil(n / batch_size)
NumBatches == (Len(review_texts) + batch_size - 1) \div batch_size

\* C27: in a call that goes through _process_in_batches, call k to the LLM
\* service carries chunk k of the input; a call is issued only when every
\* earlier call has completed, so at most one call is in flight; a chunk is
\* submitted once, whether its call succeeds or fails; and a call that has
\* returned has made exactly ceil(n / batch_size) calls.
C27_SequentialChunks ==
    [][InBatches' =>
          /\ Len(llm_calls') - Len(svc_log') \in {0, 1}
          /\ Len(llm_calls') <= NumBatches'
          /\ \A k \in 1..Len(llm_calls') : llm_calls'[k] = Chunk(k)'
          /\ Returned' =>
                /\ Len(llm_calls') = NumBatches'
                /\ Len(svc_log') = NumBatches'
          /\ llm_calls' # llm_calls =>
                /\ Len(svc_log) = Len(llm_calls)
                /\ svc_log' = svc_log
                /\ llm_calls' = Append(llm_calls, Chunk(Len(llm_calls) + 1))
      ]_vars

\* three chunks were submitted, the second one failed, and the call returned
C27_Witness ==
    /\ Returned /\ InBatches
    /\ NumBatches >= 3
    /\ Len(llm_calls) = NumBatches
    /\ svc_log[1].tag = "success"
    /\ svc_log[2].tag = "error"

\* the call took the single-call path
SingleCall ==
    Len(review_texts) >= 1 /\ Len(review_texts) <= batch_size /\ ~IdsMismatch

\* C28: with at most batch_size texts, process_reviews calls the LLM service
\* once, with the whole list, and returns what the call returned: an Error
\* as it is, with no placeholder reviews, and a Success with the same reviews
\* in the same order, the review at position k carrying the id of position k.
C28_SingleCallResult ==
    (Returned /\ SingleCall) =>
        /\ llm_calls = <<review_texts>>
        /\ Len(svc_log) = 1
        /\ svc_log[1].tag = "error" => result = svc_log[1]
        /\ svc_log[1].tag = "success" =>
              /\ result.tag = "success"
              /\ DOMAIN result.value = DOMAIN svc_log[1].value
              /\ Has(result.value, "reviews") =>
                    LET got == svc_log[1].value["reviews"]
                        out == result.value["reviews"]
                    IN  /\ Len(out) = Len(got)
                        /\ \A k \in 1..Len(out) :
                              /\ k <= Len(review_ids) =>
                                     out[k] = Put(got[k], "review_id",
                                                  review_ids[k])
                              /\ k > Len(review_ids) => out[k] = got[k]

\* a call with two texts whose reviews came back under the caller's ids
C28_Witness ==
    /\ Returned /\ SingleCall
    /\ Len(review_texts) = 2
    /\ ids_arg.given
    /\ svc_log[1].tag = "success"
    /\ Has(result.value, "reviews")
    /\ Len(result.value["reviews"]) = 2
    /\ result.value["reviews"][2]["review_id"] = ids_arg.ids[2]

(***************************************************************************)
(* services/freshdesk_service.py                                           *)
(***************************************************************************)
MaxLabels == 2

\* FreshdeskSettings: api key, domain, webhook secret, max tag length
\* (default 32); an unset value is the empty string
FreshdeskConfigs ==
    {[api_key |-> k, domain |-> dom, webhook_secret |-> "", max_tag_len |-> 32] :
        k \in {"", "key"}, dom \in {"", "acme"}}
    \cup
    [api_key : {"key"}, domain : {"acme"}, webhook_secret : {"", "s3cret"},
     max_tag_len : {6, 32}]

\* FreshdeskSettings.is_configured: both the API key and the domain are set
is_configured(c) == c.api_key # "" /\ c.domain # ""

\* __init__ lines 44-73: the attributes of the service object
FreshdeskService(c) ==
    IF ~is_configured(c)
    THEN [cfg |-> c, _active |-> FALSE]
    ELSE [cfg |-> c, base_url |-> c.domain, auth |-> <<c.api_key, "X">>,
          max_tag_len |-> c.max_tag_len, _active |-> TRUE]

\* faulty variant: the service never reports itself inactive
_check_active_always_active(self) == Success(NoneValue)

\* lines 76-80
_check_active(self) ==
    IF ~self._active
    THEN Error("Freshdesk service is not active - missing configuration")
    ELSE Success(NoneValue)

\* what an operation hands back: its return value and the calls it made, in
\* order (requests to the Freshdesk API and calls of the Review Processor)
Outcome(r, events) == [result |-> r, events |-> events]
HttpEvent(method, path, payload, response) ==
    [method |-> method, path |-> path, payload |-> payload,
     response |-> response]

TicketIds == {7}

\* ticket descriptions: nothing, HTML with text in it, HTML without text
NoHtml == ""
Htmls == {NoHtml, "<p>Great service</p>", "<script>x()</script>"}

\* lines 105-131: the text BeautifulSoup gets out of the HTML
_extract_clean_review_text(html_content) ==
    CASE html_content = NoHtml -> ""
      [] html_content = "<p>Great service</p>" -> "Great service"
      [] OTHER -> ""

\* the tickets the API can return: with or without a description
Tickets ==
    {[id |-> t, description |-> h] : t \in TicketIds, h \in Htmls}
    \cup {[id |-> t] : t \in TicketIds}

\* what a request to the API can end in: a response with a status code, or
\* an exception of the HTTP client
ClientError == Raise("ClientError")
FdResponse(status) == [tag |-> "response", status |-> status]
GetResponses ==
    {[tag |-> "response", status |-> 200, json |-> t] : t \in Tickets}
    \cup {FdResponse(404), ClientError}
PutResponses == {FdResponse(200), FdResponse(400), ClientError}
PostResponses == {FdResponse(201), FdResponse(500), ClientError}

\* lines 82-103
get_ticket(self, ticket_id, response) ==
    LET active_check == _check_active(self)
    IN  IF ~is_success(active_check)
        THEN Outcome(active_check, <<>>)
        ELSE LET sent_get == <<HttpEvent("GET", <<"tickets", ticket_id>>,
                                         NoneValue, response)>>
             IN  IF Raised(response)
                 THEN Outcome(Error("Error getting ticket"), sent_get)
                 ELSE IF response.status = 200
                 THEN Outcome(Success(response.json), sent_get)
                 ELSE Outcome(Error("Failed to get ticket"), sent_get)

\* label fields as the characters of their text
FdField(present, value) == [present |-> present, value |-> value]
FdCategories ==
    {FdField(FALSE, <<>>), FdField(TRUE, <<>>),
     FdField(TRUE, <<"A", " ", "b">>)}
FdSubcategories ==
    {FdField(FALSE, <<>>), FdField(TRUE, <<"X", "&", "Y">>)}
FdSentiments ==
    {FdField(TRUE, <<>>), FdField(TRUE, <<"N", "e", "g">>)}

\* a label dict with the keys that are present
FdLabel(c, sub, sent) ==
    LET l1 == IF c.present THEN Put(NoState, "category", c.value) ELSE NoState
        l2 == IF sub.present THEN Put(l1, "subcategory", sub.value) ELSE l1
    IN  IF sent.present THEN Put(l2, "sentiment", sent.value) ELSE l2

FdLabels ==
    {FdLabel(c, sub, sent) :
        c \in FdCategories, sub \in FdSubcategories, sent \in FdSentiments}

FdLabelLists == UNION {[1..n -> FdLabels] : n \in 0..MaxLabels}

\* str.replace(old, new) for a single character old
RECURSIVE replace(_, _, _)
replace(cs, old, new) ==
    IF cs = <<>> THEN <<>>
    ELSE (IF Head(cs) = old THEN new ELSE <<Head(cs)>>)
             \o replace(Tail(cs), old, new)

\* faulty variant: the tag is not cut
_clean_tag_uncut(raw, max_tag_len) ==
    Lower(replace(replace(raw, " ", <<"_">>), "&", <<"a", "n", "d">>))

\* lines 192-196
_clean_tag(raw, max_tag_len) ==
    LET cleaned ==
            Lower(replace(replace(raw, " ", <<"_">>), "&", <<"a", "n", "d">>))
    IN  SubSeq(cleaned, 1, Min(max_tag_len, Len(cleaned)))

cat_ == <<"c", "a", "t", "_">>
sub_ == <<"s", "u", "b", "_">>
sent_ == <<"s", "e", "n", "t", "_">>

\* lines 199-209: the tags of one label
LabelTags(label, max_tag_len) ==
    LET category == getattr(label, "category", <<>>)
        subcategory == getattr(label, "subcategory", <<>>)
        sentiment == getattr(label, "sentiment", <<>>)
    IN  (IF category # <<>>
         THEN {_clean_tag(cat_ \o category, max_tag_len)} ELSE {})
        \cup (IF subcategory # <<>>
              THEN {_clean_tag(sub_ \o subcategory, max_tag_len)} ELSE {})
        \cup (IF sentiment # <<>>
              THEN {_clean_tag(sent_ \o sentiment, max_tag_len)} ELSE {})

\* lines 198-209: tags is a set
TagSet(labels, max_tag_len) ==
    UNION {LabelTags(labels[k], max_tag_len) : k \in 1..Len(labels)}

\* lines 132-180: the note shows the text and the analysis
_format_note_body(clean_review_text, analysis) ==
    [original_text |-> clean_review_text, analysis |-> analysis]

\* faulty variant: a tag update that was not answered 200 ends the operation
update_ticket_with_analysis_stops_after_tags(self, ticket_id, clean_review_text, analysis, put_response, post_response) ==
    LET active_check == _check_active(self)
    IN  IF ~is_success(active_check)
        THEN Outcome(active_check, <<>>)
        ELSE
        LET labels == getattr(analysis, "labels", <<>>)
            tags == TagSet(labels, self.cfg.max_tag_len)
            update_payload == [tags |-> tags]
            note_payload ==
                [body |-> _format_note_body(clean_review_text, analysis),
                 private |-> TRUE]
            sent_put ==
                IF tags # {}
                THEN <<HttpEvent("PUT", <<"tickets", ticket_id>>,
                                 update_payload, put_response)>>
                ELSE <<>>
            sent_post ==
                <<HttpEvent("POST", <<"tickets", ticket_id, "notes">>,
                            note_payload, post_response)>>
        IN  IF tags # {} /\ Raised(put_response)
            THEN Outcome(Error("Error updating ticket"), sent_put)
            ELSE IF tags # {} /\ put_response.status # 200
            THEN Outcome(Error("Error updating ticket"), sent_put)
            ELSE IF Raised(post_response)
            THEN Outcome(Error("Error updating ticket"), sent_put \o sent_post)
            ELSE Outcome(Success([message |-> "Processed ticket"]),
                         sent_put \o sent_post)

\* lines 182-243
update_ticket_with_analysis(self, ticket_id, clean_review_text, analysis, put_response, post_response) ==
    LET active_check == _check_active(self)
    IN  IF ~is_success(active_check)
        THEN Outcome(active_check, <<>>)
        ELSE
        LET labels == getattr(analysis, "labels", <<>>)
            tags == TagSet(labels, self.cfg.max_tag_len)
            update_payload == [tags |-> tags]
            note_payload ==
                [body |-> _format_note_body(clean_review_text, analysis),
                 private |-> TRUE]
            sent_put ==
                IF tags # {}
                THEN <<HttpEvent("PUT", <<"tickets", ticket_id>>,
                                 update_payload, put_response)>>
                ELSE <<>>
            sent_post ==
                <<HttpEvent("POST", <<"tickets", ticket_id, "notes">>,
                            note_payload, post_response)>>
        IN  IF tags # {} /\ Raised(put_response)
            THEN Outcome(Error("Error updating ticket"), sent_put)
            ELSE IF Raised(post_response)
            THEN Outcome(Error("Error updating ticket"), sent_put \o sent_post)
            ELSE Outcome(Success([message |-> "Processed ticket"]),
                         sent_put \o sent_post)

\* `not raw_html_description`
NoDescription(html) == html \in {NoneValue, NoHtml}

\* a call of processor.process_reviews and the Result it returned
ProcessorEvent(texts, ids, r) ==
    [method |-> "process_reviews", path |-> ids, payload |-> texts,
     response |-> r]

FdReviewId(ticket_id) == "fd_" \o ToString(ticket_id)

\* what process_reviews can return for one text: an Error, a Success without
\* reviews, or a Success with the review and its labels
ProcessorResults(text, review_id) ==
    {Error("llm down"), Success([reviews |-> <<>>]),
     Success([summary |-> "none"])}
    \cup {Success([reviews |-> <<[review_id |-> review_id, text |-> text,
                                  labels |-> ls]>>]) :
             ls \in {<<>>,
                     <<FdLabel(FdField(TRUE, <<"A", " ", "b">>),
                               FdField(TRUE, <<"X", "&", "Y">>),
                               FdField(TRUE, <<"N", "e", "g">>))>>}}

\* faulty variant: the ticket is updated whatever the analysis returned
process_ticket_reviews_ignores_error(self, ticket_id, raw_html_description, get_response, analysis_result, put_response, post_response) ==
    LET active_check == _check_active(self)
        fetched == NoDescription(raw_html_description)
        fetch == IF fetched THEN get_ticket(self, ticket_id, get_response)
                 ELSE Outcome(NoResult, <<>>)
    IN  IF ~is_success(active_check)
        THEN Outcome(active_check, <<>>)
        ELSE IF fetched /\ ~is_success(fetch.result)
        THEN fetch
        ELSE
        LET description ==
                IF fetched
                THEN getattr(fetch.result.value, "description", NoHtml)
                ELSE raw_html_description
            clean_review_text == _extract_clean_review_text(description)
            review_id == FdReviewId(ticket_id)
            analysed == <<ProcessorEvent(<<clean_review_text>>, <<review_id>>,
                                         analysis_result)>>
        IN  IF NoDescription(description)
            THEN Outcome(Error("Ticket has no HTML description"), fetch.events)
            ELSE IF clean_review_text = ""
            THEN Outcome(Error("Could not extract clean review text from HTML"),
                         fetch.events)
            ELSE
            LET processed_reviews ==
                    IF is_success(analysis_result)
                    THEN getattr(analysis_result.value, "reviews", <<>>)
                    ELSE <<>>
                analysis_data ==
                    IF processed_reviews = <<>>
                    THEN [review_id |-> review_id,
                          review_text |-> clean_review_text,
                          labels |-> <<>>, language |-> "unknown"]
                    ELSE processed_reviews[1]
                update == update_ticket_with_analysis(
                              self, ticket_id, clean_review_text,
                              analysis_data, put_response, post_response)
            IN  Outcome(update.result,
                        fetch.events \o analysed \o update.events)

\* lines 245-285
process_ticket_reviews(self, ticket_id, raw_html_description, get_response, analysis_result, put_response, post_response) ==
    LET active_check == _check_active(self)
        fetched == NoDescription(raw_html_description)
        fetch == IF fetched THEN get_ticket(self, ticket_id, get_response)
                 ELSE Outcome(NoResult, <<>>)
    IN  IF ~is_success(active_check)
        THEN Outcome(active_check, <<>>)
        ELSE IF fetched /\ ~is_success(fetch.result)
        THEN fetch
        ELSE
        LET description ==
                IF fetched
                THEN getattr(fetch.result.value, "description", NoHtml)
                ELSE raw_html_description
            clean_review_text == _extract_clean_review_text(description)
            review_id == FdReviewId(ticket_id)
            analysed == <<ProcessorEvent(<<clean_review_text>>, <<review_id>>,
                                         analysis_result)>>
        IN  IF NoDescription(description)
            THEN Outcome(Error("Ticket has no HTML description"), fetch.events)
            ELSE IF clean_review_text = ""
            THEN Outcome(Error("Could not extract clean review text from HTML"),
                         fetch.events)
            ELSE IF ~is_success(analysis_result)
            THEN Outcome(analysis_result, fetch.events \o analysed)
            ELSE
            LET processed_reviews ==
                    getattr(analysis_result.value, "reviews", <<>>)
                analysis_data ==
                    IF processed_reviews = <<>>
                    THEN [review_id |-> review_id,
                          review_text |-> clean_review_text,
                          labels |-> <<>>, language |-> "unknown"]
                    ELSE processed_reviews[1]
                update == update_ticket_with_analysis(
                              self, ticket_id, clean_review_text,
                              analysis_data, put_response, post_response)
            IN  Outcome(update.result,
                        fetch.events \o analysed \o update.events)

\* a plain return value
Return(v) == [tag |-> "return", value |-> v]

\* FreshdeskWebhookPayload: reviews, each with a review_id and an optional
\* review_text
WebhookPayloads ==
    {[reviews |-> <<>>]}
    \cup {[reviews |-> <<[review_id |-> t, review_text |-> h]>>] :
             t \in TicketIds, h \in Htmls \cup {NoneValue}}

\* lines 287-327; the function returns None
handle_webhook_event(self, payload, get_response, analysis_result, put_response, post_response) ==
    IF payload.reviews = <<>>
    THEN Outcome(Return(NoneValue), <<>>)
    ELSE
    LET review_item == payload.reviews[1]
        ticket_id == review_item.review_id
        fetched == NoDescription(review_item.review_text)
        ticket_result == IF fetched
                         THEN get_ticket(self, ticket_id, get_response)
                         ELSE Outcome(NoResult, <<>>)
    IN  IF fetched /\ ~is_success(ticket_result.result)
        THEN Outcome(Return(NoneValue), ticket_result.events)
        ELSE
        LET raw_html_description ==
                IF fetched
                THEN getattr(ticket_result.result.value, "description", NoHtml)
                ELSE review_item.review_text
            processed == process_ticket_reviews(
                             self, ticket_id, raw_html_description,
                             get_response, analysis_result, put_response,
                             post_response)
        IN  IF NoDescription(raw_html_description)
            THEN Outcome(Return(NoneValue), ticket_result.events)
            ELSE Outcome(Return(NoneValue),
                         ticket_result.events \o processed.events)

\* hmac.new(secret, body, sha256).hexdigest(): one digest per secret and body
hexdigest(secret, body) == <<"sha256", secret, body>>

Bodies == {"{}", "{\"reviews\":[]}"}
Signatures ==
    {hexdigest(k, b) : k \in {"s3cret", "other"}, b \in Bodies}
    \cup {<<>>}
SignatureHeaders ==
    {NoHeaders} \cup {[h \in {"X-Freshdesk-Signature"} |-> sig] :
                         sig \in Signatures}

\* lines 329-362: `self.settings` is an attribute lookup on the service
\* object, which raises AttributeError when __init__ has not set it
validate_webhook_signature(self, headers, body) ==
    IF ~Has(self, "settings")
    THEN Raise("AttributeError")
    ELSE IF self.settings.webhook_secret = ""
    THEN Return(TRUE)
    ELSE LET received_signature ==
                 getattr(headers, "X-Freshdesk-Signature", <<>>)
         IN  IF received_signature = <<>>
             THEN Return(FALSE)
             ELSE Return(hexdigest(self.settings.webhook_secret, body)
                             = received_signature)

(***************************************************************************)
(* One operation of a Freshdesk service built from some configuration.     *)
(***************************************************************************)
InitFreshdesk ==
    /\ cfg \in FreshdeskConfigs
    /\ fd_pc = "idle"
    /\ fd_call = [op |-> "none"]
    /\ fd_events = <<>>
    /\ fd_result = NoResult
    /\ vOff
    /\ gOff
    /\ pOff
    /\ hOff
    /\ cOff

\* the operation ran to its end: what it returned and the calls it made
Finish(call, outcome) ==
    /\ fd_pc' = "done"
    /\ fd_call' = call
    /\ fd_result' = outcome.result
    /\ fd_events' = outcome.events
    /\ UNCHANGED <<cfg, vVars, gVars, pVars, hVars, cVars>>

GetTicket ==
    /\ fd_pc = "idle"
    /\ \E ticket_id \in TicketIds, response \in GetResponses :
           Finish([op |-> "get_ticket", ticket_id |-> ticket_id],
                  get_ticket(FreshdeskService(cfg), ticket_id, response))

UpdateTicketWithAnalysis ==
    /\ fd_pc = "idle"
    /\ \E ticket_id \in TicketIds, labels \in FdLabelLists,
          put_response \in PutResponses, post_response \in PostResponses :
           LET analysis == [review_id |-> FdReviewId(ticket_id),
                            text |-> "Great service", labels |-> labels]
           IN  Finish([op |-> "update_ticket_with_analysis",
                       ticket_id |-> ticket_id, analysis |-> analysis],
                      update_ticket_with_analysis(
                          FreshdeskService(cfg), ticket_id, "Great service",
                          analysis, put_response, post_response))

ProcessTicketReviews ==
    /\ fd_pc = "idle"
    /\ \E ticket_id \in TicketIds, html \in Htmls \cup {NoneValue},
          get_response \in GetResponses,
          put_response \in PutResponses, post_response \in PostResponses :
          \E analysis_result \in
                 ProcessorResults("Great service", FdReviewId(ticket_id)) :
             Finish([op |-> "process_ticket_reviews", ticket_id |-> ticket_id,
                     raw_html_description |-> html],
                    process_ticket_reviews(
                        FreshdeskService(cfg), ticket_id, html, get_response,
                        analysis_result, put_response, post_response))

HandleWebhookEvent ==
    /\ fd_pc = "idle"
    /\ \E payload \in WebhookPayloads, get_response \in GetResponses,
          put_response \in PutResponses, post_response \in PostResponses :
          \E analysis_result \in ProcessorResults("Great service", "fd_7") :
             Finish([op |-> "handle_webhook_event", payload |-> payload],
                    handle_webhook_event(
                        FreshdeskService(cfg), payload, get_response,
                        analysis_result, put_response, post_response))

ValidateWebhookSignature ==
    /\ fd_pc = "idle"
    /\ \E headers \in SignatureHeaders, body \in Bodies :
           Finish([op |-> "validate_webhook_signature", headers |-> headers,
                   body |-> body],
                  Outcome(validate_webhook_signature(FreshdeskService(cfg),
                                                     headers, body), <<>>))

NextFreshdesk ==
    \/ GetTicket
    \/ UpdateTicketWithAnalysis
    \/ ProcessTicketReviews
    \/ HandleWebhookEvent
    \/ ValidateWebhookSignature

SpecFreshdesk == InitFreshdesk /\ [][NextFreshdesk]_vars

(***************************************************************************)
(* Properties of the Freshdesk service                                     *)
(***************************************************************************)
FdDone(op) == fd_pc = "done" /\ fd_call.op = op

\* the positions of the calls of the given kinds among the calls made
EventsOf(methods) ==
    {k \in 1..Len(fd_events) : fd_events[k].method \in methods}

\* C23: a service built without an API key or without a domain is inactive:
\* get_ticket, update_ticket_with_analysis and process_ticket_reviews return
\* Error, handle_webhook_event returns without effect, and none of them sends
\* a request to Freshdesk or calls the Review Processor.
C23_InactiveNoEffects ==
    (/\ fd_pc = "done"
     /\ ~(cfg.api_key # "" /\ cfg.domain # "")
     /\ fd_call.op # "validate_webhook_signature") =>
        /\ fd_events = <<>>
        /\ fd_call.op # "handle_webhook_event" => fd_result.tag = "error"
        /\ fd_call.op = "handle_webhook_event" =>
               fd_result = Return(NoneValue)

\* a webhook event with a description arrived at a service without a domain
C23_Witness ==
    /\ FdDone("handle_webhook_event")
    /\ cfg.api_key = "key"
    /\ cfg.domain = ""
    /\ fd_call.payload.reviews # <<>>
    /\ fd_call.payload.reviews[1].review_text = "<p>Great service</p>"
    /\ fd_events = <<>>

\* some label has a category, subcategory or sentiment that is not empty
HasTagField(labels) ==
    \E k \in 1..Len(labels) :
        \E f \in {"category", "subcategory", "sentiment"} :
            getattr(labels[k], f, <<>>) # <<>>

\* C24: on an active service update_ticket_with_analysis sends the tag PUT
\* first when there is a tag, sends the note POST whatever status the PUT got,
\* returns Success for every pair of status codes, and returns Error exactly
\* when one of the two requests threw.
C24_TagsThenNoteAlwaysSuccess ==
    (FdDone("update_ticket_with_analysis") /\ cfg.api_key # ""
         /\ cfg.domain # "") =>
        LET with_tags == HasTagField(fd_call.analysis.labels)
            puts == EventsOf({"PUT"})
            posts == EventsOf({"POST"})
            thrown == {k \in 1..Len(fd_events) : Raised(fd_events[k].response)}
        IN  /\ puts = IF with_tags THEN {1} ELSE {}
            /\ \A k \in posts : \A j \in puts : j < k
            /\ (puts \cap thrown = {}) => Cardinality(posts) = 1
            /\ Cardinality(posts) <= 1
            /\ thrown = {} <=> fd_result.tag = "success"
            /\ thrown # {} <=> fd_result.tag = "error"

\* the tag update was answered 400, the note 500, and the result is Success
C24_Witness ==
    /\ FdDone("update_ticket_with_analysis")
    /\ Len(fd_events) = 2
    /\ fd_events[1].method = "PUT"
    /\ fd_events[1].response = FdResponse(400)
    /\ fd_events[2].method = "POST"
    /\ fd_events[2].response = FdResponse(500)
    /\ fd_result.tag = "success"

\* C25: validate_webhook_signature returns true when the signature header
\* is the HMAC-SHA256 hex digest of the body under the webhook secret, false
\* when the header is missing or differs, and true for every request when no
\* secret is configured.
C25_SignatureValidation ==
    FdDone("validate_webhook_signature") =>
        /\ fd_result.tag = "return"
        /\ fd_result.value =
              IF cfg.webhook_secret = "" THEN TRUE
              ELSE /\ Has(fd_call.headers, "X-Freshdesk-Signature")
                   /\ fd_call.headers["X-Freshdesk-Signature"]
                          = hexdigest(cfg.webhook_secret, fd_call.body)

\* the tag text of a field text: every character in lower case, '_' for a
\* space, 'and' for '&'
RECURSIVE TagForm(_)
TagForm(raw) ==
    IF raw = <<>> THEN <<>>
    ELSE (CASE Head(raw) = " " -> <<"_">>
            [] Head(raw) = "&" -> <<"a", "n", "d">>
            [] OTHER -> <<LowerChar(Head(raw))>>) \o TagForm(Tail(raw))

TagPrefixes ==
    [category |-> <<"c", "a", "t", "_">>,
     subcategory |-> <<"s", "u", "b", "_">>,
     sentiment |-> <<"s", "e", "n", "t", "_">>]

\* the tags the labels stand for, each cut to n characters
ExpectedTags(labels, n) ==
    {LET full == TagForm(TagPrefixes[f] \o labels[k][f])
     IN  SubSeq(full, 1, Min(n, Len(full))) :
        <<k, f>> \in {<<k, f>> \in (1..Len(labels)) \X DOMAIN TagPrefixes :
                        Has(labels[k], f) /\ labels[k][f] # <<>>}}

\* C26: every tag sent to Freshdesk has at most max_tag_len characters and is
\* the tag text of cat_/sub_/sent_ + a field that is present and not empty,
\* cut to that length; every such field has its tag in the set; and the set
\* has at most three tags per label.
C26_TagsCleanAndBounded ==
    (FdDone("update_ticket_with_analysis") /\ EventsOf({"PUT"}) # {}) =>
        LET tags == fd_events[1].payload.tags
            labels == fd_call.analysis.labels
        IN  /\ \A t \in tags : Len(t) <= cfg.max_tag_len
            /\ tags = ExpectedTags(labels, cfg.max_tag_len)
            /\ Cardinality(tags) <= 3 * Len(labels)

\* a tag was cut in the middle of the 'and' that stands for '&'
C26_Witness ==
    /\ FdDone("update_ticket_with_analysis")
    /\ cfg.max_tag_len = 6
    /\ Len(fd_call.analysis.labels) = 2
    /\ EventsOf({"PUT"}) = {1}
    /\ <<"s", "u", "b", "_", "x", "a">> \in fd_events[1].payload.tags
    /\ <<"c", "a", "t", "_", "a", "_">> \in fd_events[1].payload.tags

\* the description process_ticket_reviews works on: the one it was given, or
\* the one of the ticket it fetched
FdDescription ==
    IF ~NoDescription(fd_call.raw_html_description)
    THEN fd_call.raw_html_description
    ELSE IF /\ EventsOf({"GET"}) # {}
            /\ ~Raised(fd_events[1].response)
            /\ fd_events[1].response.status = 200
    THEN getattr(fd_events[1].response.json, "description", NoHtml)
    ELSE NoHtml

\* C29: process_ticket_reviews writes to the ticket (tag PUT, note POST) only
\* after the Review Processor returned Success for a text that is not empty;
\* when the fetch fails, there is no description, the extracted text is empty
\* or the analysis returns Error, it returns Error and writes nothing; and it
\* fetches the ticket only when it was given no description.
C29_WriteOnlyAfterSuccess ==
    (FdDone("process_ticket_reviews") /\ cfg.api_key # ""
         /\ cfg.domain # "") =>
        LET writes == EventsOf({"PUT", "POST"})
            gets == EventsOf({"GET"})
            analyses == EventsOf({"process_reviews"})
            failed ==
                \/ \E k \in gets :
                       \/ Raised(fd_events[k].response)
                       \/ fd_events[k].response.status # 200
                \/ NoDescription(FdDescription)
                \/ _extract_clean_review_text(FdDescription) = ""
                \/ \E k \in analyses : fd_events[k].response.tag = "error"
        IN  /\ \A k \in writes :
                  \E j \in analyses :
                      /\ j < k
                      /\ fd_events[j].response.tag = "success"
                      /\ fd_events[j].payload # <<"">>
            /\ failed => (fd_result.tag = "error" /\ writes = {})
            /\ gets # {} => NoDescription(fd_call.raw_html_description)
            /\ Cardinality(gets) <= 1
            /\ \A k \in gets : k = 1

\* the ticket was fetched, analysed and updated
C29_Witness ==
    /\ FdDone("process_ticket_reviews")
    /\ fd_call.raw_html_description = NoneValue
    /\ Len(fd_events) = 4
    /\ fd_events[1].method = "GET"
    /\ fd_events[2].method = "process_reviews"
    /\ fd_events[3].method = "PUT"
    /\ fd_events[4].method = "POST"
    /\ fd_result.tag = "success"

(***************************************************************************)
(* Requests handled concurrently by the rate limiter.  A request runs from *)
(* the start of dispatch to `await call_next(request)` without suspending  *)
(* (lines 104-138), is suspended while the rest of the application handles *)
(* it, and resumes at line 141 when the response comes back.               *)
(***************************************************************************)
InitConcurrent ==
    /\ settings \in {st \in SettingsChoices :
                        st.environment = "production" /\ st.auth_type = "none"}
    /\ clients = NoState
    /\ current_time = 0
    /\ request = [path |-> ""]
    /\ request_state = NoState
    /\ response_sent = [status |-> 0]
    /\ raised = NoException
    /\ reached = "none"
    /\ forwarded = NoState
    /\ served = 0
    /\ in_flight = {}
    /\ remaining_sent = {}
    /\ vOff
    /\ gOff
    /\ pOff
    /\ fOff

\* faulty variant: the timestamp of a request counts only once the request
\* has come back, as if it were recorded after the await
Dispatch_counts_completed_only ==
    /\ served < MaxRequests
    /\ \E req \in HttpRequests(settings.auth_type),
          now \in current_time..MaxTime :
          LET kept == PrunedTimestamps(req.client, now)
              suspended == {r \in in_flight : r.client = req.client}
              admitted == Len(kept) - Cardinality(suspended)
                              < settings.requests_limit
          IN  /\ clients' = Put(clients, req.client,
                                IF admitted THEN Append(kept, now) ELSE kept)
              /\ in_flight' = IF admitted
                              THEN in_flight \cup
                                       {[id |-> served + 1,
                                         client |-> req.client, now |-> now]}
                              ELSE in_flight
              /\ request' = req
              /\ reached' = IF admitted THEN "route" ELSE "rate_limit"
              /\ current_time' = now
              /\ served' = served + 1
    /\ UNCHANGED <<settings, request_state, response_sent, raised, forwarded,
                   remaining_sent, vVars, gVars, pVars, fVars>>

\* lines 104-138: prune, check and record, then either the rejection or the
\* call of the rest of the application
Dispatch ==
    /\ served < MaxRequests
    /\ \E req \in HttpRequests(settings.auth_type),
          now \in current_time..MaxTime :
          LET limiter == RateLimitingMiddleware(req, now)
          IN  /\ clients' = limiter.clients
              /\ in_flight' = IF limiter.pass
                              THEN in_flight \cup
                                       {[id |-> served + 1,
                                         client |-> req.client, now |-> now]}
                              ELSE in_flight
              /\ request' = req
              /\ reached' = IF limiter.pass THEN "route" ELSE "rate_limit"
              /\ current_time' = now
              /\ served' = served + 1
    /\ UNCHANGED <<settings, request_state, response_sent, raised, forwarded,
                   remaining_sent, vVars, gVars, pVars, fVars>>

\* lines 138-146: the response of a suspended request comes back and gets
\* the rate limit headers, computed from the client's list as it is now
Resume ==
    /\ \E r \in in_flight :
          LET response == RateLimitHeaders(RouteResponse(200),
                                           clients[r.client], r.now)
          IN  /\ remaining_sent' =
                     remaining_sent \cup
                         {[client |-> r.client,
                           remaining |->
                               response.headers["X-RateLimit-Remaining"]]}
              /\ in_flight' = in_flight \ {r}
              /\ response_sent' = response
    /\ UNCHANGED <<settings, clients, current_time, request, request_state,
                   raised, reached, forwarded, served, vVars, gVars, pVars,
                   fVars>>

\* line 138: call_next raises; no header is added
DownstreamRaises ==
    /\ \E r \in in_flight : in_flight' = in_flight \ {r}
    /\ UNCHANGED <<settings, clients, current_time, request, request_state,
                   response_sent, raised, reached, forwarded, served,
                   remaining_sent, vVars, gVars, pVars, fVars>>

NextConcurrent ==
    \/ Dispatch
    \/ Resume
    \/ DownstreamRaises

SpecConcurrent == InitConcurrent /\ [][NextConcurrent]_vars

\* C30: whatever the interleaving of a client's concurrent requests, the
\* client's timestamp list never has more than requests_limit entries and no
\* X-RateLimit-Remaining value sent is negative.
C30_ListWithinLimit ==
    /\ \A c \in DOMAIN clients : Len(clients[c]) <= settings.requests_limit
    /\ \A sent_value \in remaining_sent : sent_value.remaining >= 0

\* two requests of one client were suspended at the same time, a third one
\* was rejected meanwhile, and a response has gone out with remaining 0
C30_Witness ==
    /\ settings.requests_limit = 2
    /\ served = 3
    /\ reached = "rate_limit"
    /\ \E r \in in_flight :
          /\ r.client = request.client
          /\ Len(clients[r.client]) = 2
          /\ [client |-> r.client, remaining |-> 0] \in remaining_sent

====
